---- MODULE Spec2Model ----
(***************************************************************************)
(* AI-Roadmap-Generator: the browser front end in its auth-gated variant  *)
(* and the express server behind it, as a state machine.  The text         *)
(* functions (renderMarkdown to buildCollapsibleRoadmap) are the same code *)
(* in the plain variant of the front end.                                  *)
(*                                                                         *)
(* Text is a sequence of symbols.  A symbol is one character ("#", " ",    *)
(* "*", "\n", a digit, ...) or an atom that stands for a fixed run of      *)
(* characters which no regular expression of the program splits: a word    *)
(* of two or more letters ("Phase", "Resources"), the URL scheme           *)
(* "https://", a host ("x.io"), or, in output, a tag the program itself    *)
(* wrote ("<li>", "&amp;").  Every regular expression of the source is an  *)
(* operator over such sequences with the matching order of the JavaScript  *)
(* engine (leftmost match, greedy and lazy quantifiers, backtracking of    *)
(* \s* across line ends).                                                  *)
(***************************************************************************)
EXTENDS Integers, Sequences, FiniteSets, TLC

(***************************************************************************)
(* Character classes                                                       *)
(***************************************************************************)

\* Words of two or more letters, in lower case, each with its capitalised form.
CapOf ==
  [phase |-> "Phase", yt |-> "Yt", tutorials |-> "Tutorials",
   recommended |-> "Recommended", resources |-> "Resources", resource |-> "Resource",
   objectives |-> "Objectives", objective |-> "Objective", duration |-> "Duration",
   concrete |-> "Concrete", tasks |-> "Tasks", activities |-> "Activities",
   suggested |-> "Suggested", project |-> "Project", ideas |-> "Ideas", idea |-> "Idea",
   tips |-> "Tips", for |-> "For", staying |-> "Staying", consistent |-> "Consistent",
   how |-> "How", to |-> "To", measure |-> "Measure", progress |-> "Progress",
   next |-> "Next", step |-> "Step", details |-> "Details", no |-> "No",
   available |-> "Available", docs |-> "Docs", learn |-> "Learn", basics |-> "Basics",
   build |-> "Build", weeks |-> "Weeks", intro |-> "Intro"]

LowWords == DOMAIN CapOf
CapWords == {CapOf[w] : w \in LowWords}
\* written in capitals throughout
UpWords == {"YT"}
Words == LowWords \cup CapWords \cup UpWords

\* The scheme of a URL and what follows it up to white space or ")".
Schemes == {"https://", "http://"}
TitledSchemes == {"Https://", "Http://"}
Hosts == {"x.io", "X.Io", "x.Io"}

Digits == {"0", "1", "2", "3", "4", "5", "6", "7", "8", "9"}

\* JavaScript LineTerminator: what "." refuses and what ^ and $ (flag m) see.
IsLineTerminator(c) == c \in {"\n", "\r"}

\* \s
IsWhite(c) == c \in {" ", "\t", "\n", "\r"}

\* \d
IsDigit(c) == c \in Digits

\* [A-Za-z] at both ends of the symbol
IsLetter(c) == c \in Words \/ c \in Hosts

\* \w at the start of the symbol
StartsWithWordChar(c) ==
  c \in Words \/ c \in Hosts \/ c \in Schemes \/ c \in TitledSchemes \/ c \in Digits \/ c = "_"

\* \w at the end of the symbol
EndsWithWordChar(c) == c \in Words \/ c \in Hosts \/ c \in Digits \/ c = "_"

LowerOfCap == [c \in CapWords |-> CHOOSE w \in LowWords : CapOf[w] = c]

\* String.prototype.toLowerCase, symbol by symbol
LowerSym(c) ==
  IF c \in CapWords THEN LowerOfCap[c]
  ELSE CASE c = "YT" -> "yt"
         [] c = "Https://" -> "https://"
         [] c = "Http://" -> "http://"
         [] c = "X.Io" -> "x.io"
         [] c = "x.Io" -> "x.io"
         [] OTHER -> c

\* .replace(/\b\w/g, (m) => m.toUpperCase()) on one symbol that starts a word
UpperFirstSym(c) ==
  IF c \in LowWords THEN CapOf[c]
  ELSE CASE c = "https://" -> "Https://"
         [] c = "http://" -> "Http://"
         [] c = "x.io" -> "X.Io"
         [] c = "x.Io" -> "X.Io"
         [] OTHER -> c

\* the same replacement on a symbol that continues a word: only a host holds
\* a second word start (after its dot)
UpperInnerSym(c) == IF c = "x.io" THEN "x.Io" ELSE c

toLowerCase(s) == [i \in 1..Len(s) |-> LowerSym(s[i])]

(***************************************************************************)
(* Sequence helpers                                                        *)
(***************************************************************************)

Take(s, n) == SubSeq(s, 1, n)
Drop(s, n) == SubSeq(s, n + 1, Len(s))

\* s[p], or "" past the end (no symbol is the empty string)
At(s, p) == IF p >= 1 /\ p <= Len(s) THEN s[p] ELSE ""

\* whether the symbols of t stand in s from position p on
StartsAt(s, p, t) ==
  /\ p + Len(t) - 1 <= Len(s)
  /\ \A i \in 1..Len(t) : s[p + i - 1] = t[i]

\* whether t occurs in s
Contains(s, t) == \E p \in 1..(Len(s) - Len(t) + 1) : StartsAt(s, p, t)

\* ^ under flag m: at the start, or right after a line terminator
AtLineStart(s, p) == p = 1 \/ (p >= 2 /\ p <= Len(s) + 1 /\ IsLineTerminator(s[p - 1]))

\* the first position from p on that holds a line terminator, or Len(s) + 1
RECURSIVE EolFrom(_, _)
EolFrom(s, p) ==
  IF p > Len(s) \/ IsLineTerminator(s[p]) THEN p ELSE EolFrom(s, p + 1)

\* the first position from p on that holds no white space, or Len(s) + 1
RECURSIVE SkipWhite(_, _)
SkipWhite(s, p) ==
  IF p > Len(s) \/ ~IsWhite(s[p]) THEN p ELSE SkipWhite(s, p + 1)

\* the first position from p on that holds no digit, or Len(s) + 1
RECURSIVE SkipDigits(_, _)
SkipDigits(s, p) ==
  IF p > Len(s) \/ ~IsDigit(s[p]) THEN p ELSE SkipDigits(s, p + 1)

\* String.prototype.trimStart / trimEnd / trim
RECURSIVE trimStart(_)
trimStart(s) ==
  IF s # <<>> /\ IsWhite(Head(s)) THEN trimStart(Tail(s)) ELSE s

RECURSIVE trimEnd(_)
trimEnd(s) ==
  IF s # <<>> /\ IsWhite(s[Len(s)]) THEN trimEnd(Take(s, Len(s) - 1)) ELSE s

trim(s) == trimEnd(trimStart(s))

\* split(/\r?\n/): always at least one line
RECURSIVE SplitLines(_, _)
SplitLines(s, cur) ==
  IF s = <<>> THEN <<cur>>
  ELSE IF Head(s) = "\n" THEN <<cur>> \o SplitLines(Tail(s), <<>>)
  ELSE IF Head(s) = "\r" /\ Len(s) >= 2 /\ s[2] = "\n"
       THEN <<cur>> \o SplitLines(Drop(s, 2), <<>>)
  ELSE SplitLines(Tail(s), Append(cur, Head(s)))

split(s) == SplitLines(s, <<>>)

\* Array.prototype.join("\n")
RECURSIVE join(_)
join(lines) ==
  IF lines = <<>> THEN <<>>
  ELSE IF Len(lines) = 1 THEN lines[1]
  ELSE lines[1] \o <<"\n">> \o join(Tail(lines))

\* Array.prototype.join("")
RECURSIVE concat(_)
concat(parts) ==
  IF parts = <<>> THEN <<>> ELSE Head(parts) \o concat(Tail(parts))

(***************************************************************************)
(* escapeHtml and renderMarkdown                                           *)
(***************************************************************************)

EscapeSym(c) ==
  CASE c = "&" -> "&amp;"
    [] c = "<" -> "&lt;"
    [] c = ">" -> "&gt;"
    [] OTHER -> c

\* .replace(/&/g, "&amp;").replace(/</g, "&lt;").replace(/>/g, "&gt;")
escapeHtml(text) == [i \in 1..Len(text) |-> EscapeSym(text[i])]

HashRun(n) == [i \in 1..n |-> "#"]
OpenH(n) ==
  CASE n = 1 -> "<h1>" [] n = 2 -> "<h2>" [] n = 3 -> "<h3>"
    [] n = 4 -> "<h4>" [] n = 5 -> "<h5>" [] OTHER -> "<h6>"
CloseH(n) ==
  CASE n = 1 -> "</h1>" [] n = 2 -> "</h2>" [] n = 3 -> "</h3>"
    [] n = 4 -> "</h4>" [] n = 5 -> "</h5>" [] OTHER -> "</h6>"
HeadingTags == {"<h1>", "<h2>", "<h3>", "<h4>", "<h5>", "<h6>"}

\* html.replace(/^#{n} (.*$)/gim, "<hn>$1</hn>"), scanning from position p
RECURSIVE ReplaceHeading(_, _, _)
ReplaceHeading(s, n, p) ==
  IF p > Len(s) THEN <<>>
  ELSE IF AtLineStart(s, p) /\ StartsAt(s, p, HashRun(n) \o <<" ">>)
       THEN LET e == EolFrom(s, p + n + 1)
            IN <<OpenH(n)>> \o SubSeq(s, p + n + 1, e - 1) \o <<CloseH(n)>>
               \o ReplaceHeading(s, n, e)
  ELSE <<s[p]>> \o ReplaceHeading(s, n, p + 1)

StarRun(n) == [i \in 1..n |-> "*"]

\* the least j >= from with n stars at j and no line terminator in from-1..j-1,
\* or 0: where the lazy (.+?) of \*{n}(.+?)\*{n} stops
RECURSIVE LazyClose(_, _, _)
LazyClose(s, n, j) ==
  IF j + n - 1 > Len(s) THEN 0
  ELSE IF IsLineTerminator(s[j - 1]) THEN 0
  ELSE IF StartsAt(s, j, StarRun(n)) THEN j
  ELSE LazyClose(s, n, j + 1)

\* html.replace(/\*{n}(.+?)\*{n}/gim, open $1 close), scanning from position p
RECURSIVE ReplaceEmphasis(_, _, _, _, _)
ReplaceEmphasis(s, n, open, close, p) ==
  IF p > Len(s) THEN <<>>
  ELSE LET j == IF StartsAt(s, p, StarRun(n)) /\ p + n <= Len(s)
                THEN LazyClose(s, n, p + n + 1) ELSE 0
       IN IF j > 0
          THEN open \o SubSeq(s, p + n, j - 1) \o close
               \o ReplaceEmphasis(s, n, open, close, j + n)
          ELSE <<s[p]>> \o ReplaceEmphasis(s, n, open, close, p + 1)

\* html.replace(/^\s*[-*] (.*$)/gim, "<li>$1</li>"), scanning from position p
RECURSIVE ReplaceBullets(_, _)
ReplaceBullets(s, p) ==
  IF p > Len(s) THEN <<>>
  ELSE LET q == SkipWhite(s, p)
       IN IF AtLineStart(s, p) /\ At(s, q) \in {"-", "*"} /\ At(s, q + 1) = " "
          THEN LET e == EolFrom(s, q + 2)
               IN <<"<li>">> \o SubSeq(s, q + 2, e - 1) \o <<"</li>">>
                  \o ReplaceBullets(s, e)
          ELSE <<s[p]>> \o ReplaceBullets(s, p + 1)

\* html.replace(/^\s*\d+\.\s+(.*$)/gim, "<li>$1</li>"), scanning from position p
RECURSIVE ReplaceNumbered(_, _)
ReplaceNumbered(s, p) ==
  IF p > Len(s) THEN <<>>
  ELSE LET q == SkipWhite(s, p)
           d == SkipDigits(s, q)
           w == SkipWhite(s, d + 1)
       IN IF /\ AtLineStart(s, p)
             /\ d > q
             /\ At(s, d) = "."
             /\ w > d + 1
          THEN LET e == EolFrom(s, w)
               IN <<"<li>">> \o SubSeq(s, w, e - 1) \o <<"</li>">>
                  \o ReplaceNumbered(s, e)
          ELSE <<s[p]>> \o ReplaceNumbered(s, p + 1)

\* the last position of "</li>" in p..e-1, or 0
RECURSIVE LastCloseLi(_, _, _)
LastCloseLi(s, p, e) ==
  IF e - 1 < p THEN 0
  ELSE IF s[e - 1] = "</li>" THEN e - 1
  ELSE LastCloseLi(s, p, e - 1)

\* html.replace(/(<li>.*<\/li>)/gim, "<ul>$1</ul>"), scanning from position p
RECURSIVE WrapListItems(_, _)
WrapListItems(s, p) ==
  IF p > Len(s) THEN <<>>
  ELSE LET c == IF s[p] = "<li>" THEN LastCloseLi(s, p + 1, EolFrom(s, p)) ELSE 0
       IN IF c > 0
          THEN <<"<ul>">> \o SubSeq(s, p, c) \o <<"</ul>">> \o WrapListItems(s, c + 1)
          ELSE <<s[p]>> \o WrapListItems(s, p + 1)

\* (?!<h\d|<ul>|<li>|<\/li>|<\/ul>) at position q
NotStructural(s, q) ==
  At(s, q) \notin (HeadingTags \cup {"<ul>", "<li>", "</li>", "</ul>"})

\* the white-space run \s* gives back one symbol at a time until the rest of
\* ^\s*(?!...)(.+)$ matches: the greatest q in p..hi with a paragraph at q, or 0
RECURSIVE ParagraphStart(_, _, _)
ParagraphStart(s, p, q) ==
  IF q < p THEN 0
  ELSE IF NotStructural(s, q) /\ q <= Len(s) /\ ~IsLineTerminator(s[q]) THEN q
  ELSE ParagraphStart(s, p, q - 1)

\* html.replace(/^\s*(?!<h\d|<ul>|<li>|<\/li>|<\/ul>)(.+)$/gim, "<p>$1</p>")
RECURSIVE ReplaceParagraphs(_, _)
ReplaceParagraphs(s, p) ==
  IF p > Len(s) THEN <<>>
  ELSE LET q == IF AtLineStart(s, p) THEN ParagraphStart(s, p, SkipWhite(s, p)) ELSE 0
       IN IF q > 0
          THEN LET e == EolFrom(s, q)
               IN <<"<p>">> \o SubSeq(s, q, e - 1) \o <<"</p>">>
                  \o ReplaceParagraphs(s, e)
          ELSE <<s[p]>> \o ReplaceParagraphs(s, p + 1)

RenderHeadings(s) ==
  ReplaceHeading(ReplaceHeading(ReplaceHeading(ReplaceHeading(ReplaceHeading(
    ReplaceHeading(s, 6, 1), 5, 1), 4, 1), 3, 1), 2, 1), 1, 1)

RenderEmphasis(s) ==
  ReplaceEmphasis(
    ReplaceEmphasis(
      ReplaceEmphasis(s, 3, <<"<strong>", "<em>">>, <<"</em>", "</strong>">>, 1),
      2, <<"<strong>">>, <<"</strong>">>, 1),
    1, <<"<em>">>, <<"</em>">>, 1)

RenderLists(s) == WrapListItems(ReplaceNumbered(ReplaceBullets(s, 1), 1), 1)

\* a variant that rewrites the markdown without escaping first
renderMarkdownUnescaped(md) ==
  IF md = <<>> THEN <<>>
  ELSE ReplaceParagraphs(RenderLists(RenderEmphasis(RenderHeadings(md))), 1)

renderMarkdown(md) ==
  IF md = <<>> THEN <<>>
  ELSE ReplaceParagraphs(RenderLists(RenderEmphasis(RenderHeadings(escapeHtml(md)))), 1)

(***************************************************************************)
(* toTitleCase                                                             *)
(***************************************************************************)

\* .replace(/_/g, " ")
UnderscoresToSpaces(s) == [i \in 1..Len(s) |-> IF s[i] = "_" THEN " " ELSE s[i]]

\* .replace(/([A-Za-z])-([A-Za-z])/g, "$1 $2"): a hyphen between two letters
HyphensToSpaces(s) ==
  [i \in 1..Len(s) |->
     IF s[i] = "-" /\ i > 1 /\ i < Len(s) /\ IsLetter(s[i - 1]) /\ IsLetter(s[i + 1])
     THEN " " ELSE s[i]]

\* .replace(/\s+/g, " ")
RECURSIVE CollapseWhite(_)
CollapseWhite(s) ==
  IF s = <<>> THEN <<>>
  ELSE IF IsWhite(Head(s)) THEN <<" ">> \o CollapseWhite(Drop(s, SkipWhite(s, 1) - 1))
  ELSE <<Head(s)>> \o CollapseWhite(Tail(s))

\* .replace(/\b\w/g, (m) => m.toUpperCase()): the first letter of every word
UpperWordStarts(s) ==
  [i \in 1..Len(s) |->
     IF StartsWithWordChar(s[i]) /\ (i = 1 \/ ~EndsWithWordChar(s[i - 1]))
     THEN UpperFirstSym(s[i]) ELSE UpperInnerSym(s[i])]

toTitleCase(text) ==
  UpperWordStarts(CollapseWhite(HyphensToSpaces(UnderscoresToSpaces(trim(text)))))

(***************************************************************************)
(* stripLinksFromMarkdown                                                  *)
(***************************************************************************)

\* https?:\/\/ under flag i
IsScheme(c) == c \in Schemes \/ c \in TitledSchemes

\* the first position from p on that holds white space or ")", or Len(s) + 1:
\* where [^\s)]+ stops
RECURSIVE UrlEnd(_, _)
UrlEnd(s, p) ==
  IF p > Len(s) \/ IsWhite(s[p]) \/ s[p] = ")" THEN p ELSE UrlEnd(s, p + 1)

\* the first position from p on that holds c, or 0
RECURSIVE IndexFrom(_, _, _)
IndexFrom(s, c, p) ==
  IF p > Len(s) THEN 0 ELSE IF s[p] = c THEN p ELSE IndexFrom(s, c, p + 1)

\* sanitized.replace(/\[([^\]]+)\]\((https?:\/\/[^\s)]+)\)/gi, "$1")
RECURSIVE UnwrapLinks(_, _)
UnwrapLinks(s, p) ==
  IF p > Len(s) THEN <<>>
  ELSE LET r == IF s[p] = "[" THEN IndexFrom(s, "]", p + 1) ELSE 0
           u == UrlEnd(s, r + 3)
       IN IF /\ r > p + 1
             /\ At(s, r + 1) = "("
             /\ IsScheme(At(s, r + 2))
             /\ u > r + 3
             /\ At(s, u) = ")"
          THEN SubSeq(s, p + 1, r - 1) \o UnwrapLinks(s, u + 1)
          ELSE <<s[p]>> \o UnwrapLinks(s, p + 1)

\* sanitized.replace(/<https?:\/\/[^>]+>/gi, "")
RECURSIVE DropAutolinks(_, _)
DropAutolinks(s, p) ==
  IF p > Len(s) THEN <<>>
  ELSE LET c == IF s[p] = "<" /\ IsScheme(At(s, p + 1)) THEN IndexFrom(s, ">", p + 2) ELSE 0
       IN IF c > p + 2
          THEN DropAutolinks(s, c + 1)
          ELSE <<s[p]>> \o DropAutolinks(s, p + 1)

\* sanitized.replace(/https?:\/\/[^\s)]+/gi, "")
RECURSIVE DropBareUrls(_, _)
DropBareUrls(s, p) ==
  IF p > Len(s) THEN <<>>
  ELSE LET u == IF IsScheme(s[p]) THEN UrlEnd(s, p + 1) ELSE 0
       IN IF u > p + 1
          THEN DropBareUrls(s, u)
          ELSE <<s[p]>> \o DropBareUrls(s, p + 1)

\* the first position from p on that holds neither " " nor "\t", or Len(s) + 1
RECURSIVE SkipBlanks(_, _)
SkipBlanks(s, p) ==
  IF p > Len(s) \/ s[p] \notin {" ", "\t"} THEN p ELSE SkipBlanks(s, p + 1)

\* .replace(/[ \t]{2,}/g, " ")
RECURSIVE CollapseBlanks(_, _)
CollapseBlanks(s, p) ==
  IF p > Len(s) THEN <<>>
  ELSE LET e == SkipBlanks(s, p)
       IN IF e >= p + 2
          THEN <<" ">> \o CollapseBlanks(s, e)
          ELSE <<s[p]>> \o CollapseBlanks(s, p + 1)

\* the first position from p on that does not hold "\n", or Len(s) + 1
RECURSIVE SkipNewlines(_, _)
SkipNewlines(s, p) ==
  IF p > Len(s) \/ s[p] # "\n" THEN p ELSE SkipNewlines(s, p + 1)

\* .replace(/\n{3,}/g, "\n\n")
RECURSIVE CollapseNewlines(_, _)
CollapseNewlines(s, p) ==
  IF p > Len(s) THEN <<>>
  ELSE LET e == SkipNewlines(s, p)
       IN IF e >= p + 3
          THEN <<"\n", "\n">> \o CollapseNewlines(s, e)
          ELSE <<s[p]>> \o CollapseNewlines(s, p + 1)

\* a variant without the third replacement: labelled links and autolinks go,
\* bare URLs stay
stripLinksKeepingBareUrls(md) ==
  IF md = <<>> THEN <<>>
  ELSE trim(CollapseNewlines(CollapseBlanks(
         DropAutolinks(UnwrapLinks(md, 1), 1), 1), 1))

stripLinksFromMarkdown(md) ==
  IF md = <<>> THEN <<>>
  ELSE trim(CollapseNewlines(CollapseBlanks(
         DropBareUrls(DropAutolinks(UnwrapLinks(md, 1), 1), 1), 1), 1))

(***************************************************************************)
(* Heading normalisation                                                   *)
(***************************************************************************)

\* the number of "#" that s starts with
RECURSIVE LeadingHashes(_)
LeadingHashes(s) ==
  IF s # <<>> /\ Head(s) = "#" THEN 1 + LeadingHashes(Tail(s)) ELSE 0

\* .replace(/^#{1,6}\s+/, "")
StripHashes(s) ==
  LET h == LeadingHashes(s)
      w == SkipWhite(s, h + 1)
  IN IF h >= 1 /\ h <= 6 /\ w > h + 1 THEN Drop(s, w - 1) ELSE s

\* .replace(/^\s*[-*+]\s+/, "")
StripBullet(s) ==
  LET q == SkipWhite(s, 1)
      w == SkipWhite(s, q + 1)
  IN IF At(s, q) \in {"-", "*", "+"} /\ w > q + 1 THEN Drop(s, w - 1) ELSE s

\* .replace(/^\s*[-*+]\s*/, "")
StripBulletLoose(s) ==
  LET q == SkipWhite(s, 1)
  IN IF At(s, q) \in {"-", "*", "+"} THEN Drop(s, SkipWhite(s, q + 1) - 1) ELSE s

\* .replace(/^\s*\d+\.\s+/, "")
StripNumber(s) ==
  LET q == SkipWhite(s, 1)
      d == SkipDigits(s, q)
      w == SkipWhite(s, d + 1)
  IN IF d > q /\ At(s, d) = "." /\ w > d + 1 THEN Drop(s, w - 1) ELSE s

\* .replace(/\*\*/g, "")
RECURSIVE StripBold(_)
StripBold(s) ==
  IF s = <<>> THEN <<>>
  ELSE IF Len(s) >= 2 /\ s[1] = "*" /\ s[2] = "*" THEN StripBold(Drop(s, 2))
  ELSE <<Head(s)>> \o StripBold(Tail(s))

normalizeHeadingCandidate(line) ==
  trim(StripBold(StripNumber(StripBullet(StripHashes(line)))))

\* \b after the last symbol of a match that ends at position p - 1
BoundaryAt(s, p) == p > Len(s) \/ ~StartsWithWordChar(s[p])

\* whether s is t followed by a word boundary
StartsWithWord(s, t) == StartsAt(s, 1, t) /\ BoundaryAt(s, Len(t) + 1)

\* /^recommended\s*resources\b/.test(normalized)
IsRecommendedResourcesLine(n) ==
  /\ At(n, 1) = "recommended"
  /\ LET q == SkipWhite(n, 2)
     IN At(n, q) = "resources" /\ BoundaryAt(n, q + 1)

\* /^(duration|objectives|concrete tasks\/activities|concrete tasks|suggested
\*  project ideas|phase\s+\d+|yt tutorials|tips for staying consistent|how to
\*  measure progress|recommended next step)\b/.test(normalized)
IsOtherHeadingLine(n) ==
  \/ StartsWithWord(n, <<"duration">>)
  \/ StartsWithWord(n, <<"objectives">>)
  \/ StartsWithWord(n, <<"concrete", " ", "tasks", "/", "activities">>)
  \/ StartsWithWord(n, <<"concrete", " ", "tasks">>)
  \/ StartsWithWord(n, <<"suggested", " ", "project", " ", "ideas">>)
  \/ /\ At(n, 1) = "phase"
     /\ LET q == SkipWhite(n, 2)
            d == SkipDigits(n, q)
        IN q > 2 /\ d > q /\ BoundaryAt(n, d)
  \/ StartsWithWord(n, <<"yt", " ", "tutorials">>)
  \/ StartsWithWord(n, <<"tips", " ", "for", " ", "staying", " ", "consistent">>)
  \/ StartsWithWord(n, <<"how", " ", "to", " ", "measure", " ", "progress">>)
  \/ StartsWithWord(n, <<"recommended", " ", "next", " ", "step">>)

(***************************************************************************)
(* stripLinksExceptRecommendedResources and sanitizeSectionMarkdown        *)
(***************************************************************************)

\* a variant of the loop that strips the links of every line, flag or no flag
StripLoopEveryLine(lines, inRecommendedResources) ==
  [k \in 1..Len(lines) |-> stripLinksFromMarkdown(lines[k])]

\* the loop over the lines: the output lines, given the flag before lines[1]
RECURSIVE StripLoop(_, _)
StripLoop(lines, inRecommendedResources) ==
  IF lines = <<>> THEN <<>>
  ELSE LET line == Head(lines)
           normalized == toLowerCase(normalizeHeadingCandidate(line))
       IN IF IsRecommendedResourcesLine(normalized)
          THEN <<line>> \o StripLoop(Tail(lines), TRUE)
          ELSE LET flag == inRecommendedResources /\ ~IsOtherHeadingLine(normalized)
               IN <<IF flag THEN line ELSE stripLinksFromMarkdown(line)>>
                  \o StripLoop(Tail(lines), flag)

stripLinksExceptRecommendedResources(md) ==
  IF md = <<>> THEN <<>>
  ELSE trim(CollapseNewlines(join(StripLoop(split(md), FALSE)), 1))

\* /recommended\s*resources/i.test(title)
IsRecommendedResourcesTitle(title) ==
  \E p \in 1..Len(title) :
    /\ LowerSym(title[p]) = "recommended"
    /\ LowerSym(At(title, SkipWhite(title, p + 1))) = "resources"

sanitizeSectionMarkdown(title, md) ==
  IF IsRecommendedResourcesTitle(title) THEN md
  ELSE stripLinksExceptRecommendedResources(md)

(***************************************************************************)
(* getSubsectionTitle and splitPhaseContentIntoSubsections                 *)
(***************************************************************************)

\* .replace(/[:\-]+$/, "")
RECURSIVE StripTrailingColons(_)
StripTrailingColons(s) ==
  IF s # <<>> /\ s[Len(s)] \in {":", "-"}
  THEN StripTrailingColons(Take(s, Len(s) - 1)) ELSE s

\* /^duration(\s*\(.*\))?$/.test(n)
IsDurationTitle(n) ==
  /\ At(n, 1) = "duration"
  /\ \/ Len(n) = 1
     \/ /\ At(n, SkipWhite(n, 2)) = "("
        /\ n[Len(n)] = ")"
        /\ Len(n) > SkipWhite(n, 2)
        /\ \A i \in (SkipWhite(n, 2) + 1)..(Len(n) - 1) : ~IsLineTerminator(n[i])

NoTitle == <<>>

\* the patterns of getSubsectionTitle, first match first; NoTitle is null
TitleOfNormalized(n) ==
  CASE IsDurationTitle(n) -> <<"Duration">>
    [] n \in {<<"objective">>, <<"objectives">>} -> <<"Objectives">>
    [] n = <<"concrete", " ", "tasks", "/", "activities">> ->
         <<"Concrete", " ", "Tasks", "/", "Activities">>
    [] n = <<"concrete", " ", "tasks">> -> <<"Concrete", " ", "Tasks", "/", "Activities">>
    [] n = <<"tasks", "/", "activities">> -> <<"Concrete", " ", "Tasks", "/", "Activities">>
    [] n \in {<<"suggested", " ", "project", " ", "idea">>,
              <<"suggested", " ", "project", " ", "ideas">>} ->
         <<"Suggested", " ", "Project", " ", "Ideas">>
    [] n \in {<<"recommended", " ", "resource">>, <<"recommended", " ", "resources">>} ->
         <<"Recommended", " ", "Resources">>
    [] n \in {<<"resource">>, <<"resources">>} -> <<"Recommended", " ", "Resources">>
    [] n = <<"tips", " ", "for", " ", "staying", " ", "consistent">> ->
         <<"Tips", " ", "For", " ", "Staying", " ", "Consistent">>
    [] n = <<"how", " ", "to", " ", "measure", " ", "progress">> ->
         <<"How", " ", "To", " ", "Measure", " ", "Progress">>
    [] n = <<"recommended", " ", "next", " ", "step">> ->
         <<"Recommended", " ", "Next", " ", "Step">>
    [] OTHER -> NoTitle

\* a variant that leaves trailing colons and dashes where they are
getSubsectionTitleKeepingColons(line) ==
  TitleOfNormalized(toLowerCase(normalizeHeadingCandidate(line)))

getSubsectionTitle(line) ==
  TitleOfNormalized(toLowerCase(StripTrailingColons(normalizeHeadingCandidate(line))))

\* the loop of splitPhaseContentIntoSubsections: acc is [preface, subsections, current],
\* current being <<>> for null and <<sub>> for a subsection being filled
RECURSIVE SubsectionLoop(_, _)
SubsectionLoop(contentLines, acc) ==
  IF contentLines = <<>> THEN acc
  ELSE LET line == Head(contentLines)
           title == getSubsectionTitle(line)
       IN IF title # NoTitle
          THEN SubsectionLoop(Tail(contentLines),
                 [preface |-> acc.preface,
                  subsections |-> acc.subsections \o acc.current,
                  current |-> <<[title |-> title, lines |-> <<>>]>>])
          ELSE IF acc.current # <<>>
          THEN SubsectionLoop(Tail(contentLines),
                 [acc EXCEPT !.current =
                    <<[title |-> acc.current[1].title,
                       lines |-> Append(acc.current[1].lines, line)]>>])
          ELSE SubsectionLoop(Tail(contentLines),
                 [acc EXCEPT !.preface = Append(acc.preface, line)])

\* a variant whose preface is the whole content, also when a subsection
\* heading was recognised
splitPhaseContentWholePreface(contentLines) ==
  [preface |-> contentLines,
   subsections |->
     SubsectionLoop(contentLines,
       [preface |-> <<>>, subsections |-> <<>>, current |-> <<>>]).subsections
     \o SubsectionLoop(contentLines,
          [preface |-> <<>>, subsections |-> <<>>, current |-> <<>>]).current]

splitPhaseContentIntoSubsections(contentLines) ==
  LET r == SubsectionLoop(contentLines,
             [preface |-> <<>>, subsections |-> <<>>, current |-> <<>>])
  IN [preface |-> r.preface, subsections |-> r.subsections \o r.current]

(***************************************************************************)
(* parseSectionMeta                                                        *)
(***************************************************************************)

\* line.match(/^(#{1,6})\s+(.+)$/): the text of group 2, or the line itself when
\* the line is no heading
HeadingText(line) ==
  LET h == LeadingHashes(line)
      w == SkipWhite(line, h + 1)
      n == Len(line)
  IN IF h < 1 \/ h > 6 \/ w = h + 1 THEN line
     ELSE IF w <= n
     THEN IF \E i \in w..n : IsLineTerminator(line[i]) THEN line ELSE Drop(line, w - 1)
     ELSE IF n >= h + 2 /\ ~IsLineTerminator(line[n]) THEN <<line[n]>>
     ELSE line

\* Number(phaseMatch[1])
DigitValue(c) ==
  CASE c = "0" -> 0 [] c = "1" -> 1 [] c = "2" -> 2 [] c = "3" -> 3 [] c = "4" -> 4
    [] c = "5" -> 5 [] c = "6" -> 6 [] c = "7" -> 7 [] c = "8" -> 8 [] OTHER -> 9

RECURSIVE NumberOf(_)
NumberOf(digits) ==
  IF digits = <<>> THEN 0
  ELSE 10 * NumberOf(Take(digits, Len(digits) - 1)) + DigitValue(digits[Len(digits)])

\* normalized.match(/^phase\s+(\d+)\s*:/i): the digits of group 1, or <<>>
PhaseDigits(n) ==
  LET q == SkipWhite(n, 2)
      d == SkipDigits(n, q)
  IN IF /\ LowerSym(At(n, 1)) = "phase"
        /\ q > 2
        /\ d > q
        /\ At(n, SkipWhite(n, d)) = ":"
     THEN SubSeq(n, q, d - 1) ELSE <<>>

\* /^yt\s*tutorials\b/i.test(normalized)
IsYtTutorials(n) ==
  /\ LowerSym(At(n, 1)) = "yt"
  /\ LET q == SkipWhite(n, 2)
     IN LowerSym(At(n, q)) = "tutorials" /\ BoundaryAt(n, q + 1)

\* Number.MAX_SAFE_INTEGER (2^53 - 1), kept as a name: the sort never reads it,
\* for it runs over the phase sections alone
MAX_SAFE_INTEGER == "Number.MAX_SAFE_INTEGER"

NoMeta == [type |-> "none"]

parseSectionMeta(line) ==
  LET normalized == trim(StripBold(StripNumber(StripBulletLoose(HeadingText(line)))))
  IN IF PhaseDigits(normalized) # <<>>
     THEN [type |-> "phase",
           phaseNumber |-> NumberOf(PhaseDigits(normalized)),
           title |-> toTitleCase(normalized)]
     ELSE IF IsYtTutorials(normalized)
     THEN [type |-> "yt",
           phaseNumber |-> MAX_SAFE_INTEGER,
           title |-> <<"YT", " ", "Tutorials">>]
     ELSE NoMeta

(***************************************************************************)
(* buildCollapsibleRoadmap                                                 *)
(***************************************************************************)

\* the loop over the lines of the document: acc is [introLines, sections, current],
\* current being <<>> for null and <<section>> for the section being filled
RECURSIVE SectionLoop(_, _)
SectionLoop(lines, acc) ==
  IF lines = <<>> THEN acc
  ELSE LET line == Head(lines)
           meta == parseSectionMeta(line)
       IN IF meta # NoMeta
          THEN SectionLoop(Tail(lines),
                 [introLines |-> acc.introLines,
                  sections |-> acc.sections \o acc.current,
                  current |-> <<[type |-> meta.type, phaseNumber |-> meta.phaseNumber,
                                 title |-> meta.title, content |-> <<>>]>>])
          ELSE IF acc.current # <<>>
          THEN SectionLoop(Tail(lines),
                 [acc EXCEPT !.current =
                    <<[acc.current[1] EXCEPT !.content = Append(@, line)]>>])
          ELSE SectionLoop(Tail(lines),
                 [acc EXCEPT !.introLines = Append(acc.introLines, line)])

\* a variant without the push behind the loop: the last section is lost
SegmentWithoutLastPush(doc) ==
  LET r == SectionLoop(split(doc),
             [introLines |-> <<>>, sections |-> <<>>, current |-> <<>>])
  IN [introLines |-> r.introLines, sections |-> r.sections]

\* introLines and sections as they stand after the loop and the final push
Segment(doc) ==
  LET r == SectionLoop(split(doc),
             [introLines |-> <<>>, sections |-> <<>>, current |-> <<>>])
  IN [introLines |-> r.introLines, sections |-> r.sections \o r.current]

\* Array.prototype.filter on the section type
RECURSIVE FilterType(_, _)
FilterType(sections, type) ==
  IF sections = <<>> THEN <<>>
  ELSE IF Head(sections).type = type
       THEN <<Head(sections)>> \o FilterType(Tail(sections), type)
       ELSE FilterType(Tail(sections), type)

\* x put into the sorted sequence behind every element that is not greater
RECURSIVE InsertByPhaseNumber(_, _)
InsertByPhaseNumber(sorted, x) ==
  IF sorted = <<>> THEN <<x>>
  ELSE IF Head(sorted).phaseNumber - x.phaseNumber <= 0
       THEN <<Head(sorted)>> \o InsertByPhaseNumber(Tail(sorted), x)
       ELSE <<x>> \o sorted

\* .sort((a, b) => a.phaseNumber - b.phaseNumber): Array.prototype.sort is stable
RECURSIVE SortByPhaseNumber(_)
SortByPhaseNumber(sections) ==
  IF sections = <<>> THEN <<>>
  ELSE InsertByPhaseNumber(SortByPhaseNumber(Take(sections, Len(sections) - 1)),
                           sections[Len(sections)])

\* The literal pieces of the templates, each one symbol of the output.
PhaseBlockOpen == "<section class=\"roadmap-phase-block\">"
PhaseBlockClose == "</section>"
PhaseTitleOpen == "<h3 class=\"roadmap-phase-title\">"
PhaseTitleClose == "</h3>"
PrefaceOpen == "<div class=\"roadmap-phase-preface\">"
PrefaceClose == "</div>"
CardHead == "\n            <details class=\"roadmap-card\">\n              <summary class=\"roadmap-card-summary\">\n                <span class=\"roadmap-card-title\">"
CardHeadOpen == "\n            <details class=\"roadmap-card\" open>\n              <summary class=\"roadmap-card-summary\">\n                <span class=\"roadmap-card-title\">"
CardBody == "</span>\n                <span class=\"roadmap-card-icon\" aria-hidden=\"true\"></span>\n              </summary>\n              <div class=\"roadmap-card-body\">"
CardFoot == "</div>\n            </details>\n          "
StandaloneHead == "\n      <details class=\"roadmap-card\">\n        <summary class=\"roadmap-card-summary\">\n          <span class=\"roadmap-card-title\">"
StandaloneHeadOpen == "\n      <details class=\"roadmap-card\" open>\n        <summary class=\"roadmap-card-summary\">\n          <span class=\"roadmap-card-title\">"
StandaloneBody == "</span>\n          <span class=\"roadmap-card-icon\" aria-hidden=\"true\"></span>\n        </summary>\n        <div class=\"roadmap-card-body\">"
StandaloneFoot == "</div>\n      </details>\n    "

\* "_No details available._"
NoDetails == <<"_", "No", " ", "details", " ", "available", ".", "_">>

\* a variant without the placeholder: an empty content is rendered as it is
OrNothing(contentMd) == contentMd

\* contentMd || "_No details available._"
OrNoDetails(contentMd) == IF contentMd = <<>> THEN NoDetails ELSE contentMd

\* one card of a phase block (the callback of fallbackSubsections.map)
SubsectionCard(sub, phaseIndex, subIndex) ==
  LET rawContentMd == trim(join(sub.lines))
      contentMd == sanitizeSectionMarkdown(sub.title, rawContentMd)
      contentHtml == renderMarkdown(OrNoDetails(contentMd))
      open == phaseIndex = 0 /\ subIndex = 0
  IN <<IF open THEN CardHeadOpen ELSE CardHead>> \o escapeHtml(sub.title)
     \o <<CardBody>> \o contentHtml \o <<CardFoot>>

\* a variant without the "Details" card: a phase without a subsection heading
\* gets no card
NoFallbackSubsections(section, subsections) == subsections

\* subsections.length > 0 ? subsections : [{ title: "Details", lines: section.content }]
FallbackSubsections(section, subsections) ==
  IF Len(subsections) > 0 THEN subsections
  ELSE <<[title |-> <<"Details">>, lines |-> section.content]>>

\* one phase block (the callback of phaseSections.map)
PhaseBlock(section, phaseIndex) ==
  LET parts == splitPhaseContentIntoSubsections(section.content)
      prefaceMd == trim(join(parts.preface))
      prefaceHtml ==
        IF prefaceMd # <<>>
        THEN <<PrefaceOpen>>
             \o renderMarkdown(sanitizeSectionMarkdown(<<"Phase", " ", "Intro">>, prefaceMd))
             \o <<PrefaceClose>>
        ELSE <<>>
      subs == FallbackSubsections(section, parts.subsections)
      subsectionCards ==
        concat([k \in 1..Len(subs) |-> SubsectionCard(subs[k], phaseIndex, k - 1)])
  IN <<PhaseBlockOpen, PhaseTitleOpen>> \o escapeHtml(section.title) \o <<PhaseTitleClose>>
     \o prefaceHtml \o subsectionCards \o <<PhaseBlockClose>>

buildStandaloneCard(section, openByDefault) ==
  LET rawContentMd == trim(join(section.content))
      contentMd == sanitizeSectionMarkdown(section.title, rawContentMd)
      contentHtml == renderMarkdown(OrNoDetails(contentMd))
  IN <<IF openByDefault THEN StandaloneHeadOpen ELSE StandaloneHead>>
     \o escapeHtml(section.title) \o <<StandaloneBody>> \o contentHtml
     \o <<StandaloneFoot>>

\* a variant of the fallback that renders the lines joined and trimmed, as the
\* intro is rendered
FallbackRenderTrimmed(doc) == renderMarkdown(trim(join(split(doc))))

\* what buildCollapsibleRoadmap returns when no section heading was recognised
FallbackRender(doc) == renderMarkdown(doc)

\* a variant without the sort: the phases in appearance order
PhaseSectionsUnsorted(sections) == FilterType(sections, "phase")

\* phaseSections: the phases in ascending phaseNumber
PhaseSections(sections) == SortByPhaseNumber(FilterType(sections, "phase"))

\* the rendered intro run
IntroHtml(introLines) == renderMarkdown(trim(join(introLines)))

\* the order in which the parts are concatenated
Assemble(introHtml, phaseBlocksHtml, otherCardsHtml, ytCardsHtml) ==
  introHtml \o phaseBlocksHtml \o otherCardsHtml \o ytCardsHtml

\* otherSections
OtherSections(sections) ==
  SelectSeq(sections, LAMBDA x : x.type # "phase" /\ x.type # "yt")

\* phaseBlocksHtml
PhaseBlocksHtml(phaseSections) ==
  concat([k \in 1..Len(phaseSections) |-> PhaseBlock(phaseSections[k], k - 1)])

\* otherCardsHtml: the first card is open when there is no phase
OtherCardsHtml(otherSections, phaseCount) ==
  concat([k \in 1..Len(otherSections) |->
            buildStandaloneCard(otherSections[k], phaseCount = 0 /\ k - 1 = 0)])

\* a variant in which no YT Tutorials card starts expanded
YtCardsHtmlClosed(ytSections, phaseCount, otherCount) ==
  concat([k \in 1..Len(ytSections) |-> buildStandaloneCard(ytSections[k], FALSE)])

\* ytCardsHtml: the first card is open when there is nothing else
YtCardsHtml(ytSections, phaseCount, otherCount) ==
  concat([k \in 1..Len(ytSections) |->
            buildStandaloneCard(ytSections[k],
              phaseCount = 0 /\ otherCount = 0 /\ k - 1 = 0)])

\* the return value when at least one section heading was recognised
Cards(introLines, sections) ==
  Assemble(IntroHtml(introLines),
           PhaseBlocksHtml(PhaseSections(sections)),
           OtherCardsHtml(OtherSections(sections), Len(PhaseSections(sections))),
           YtCardsHtml(FilterType(sections, "yt"), Len(PhaseSections(sections)),
                       Len(OtherSections(sections))))

buildCollapsibleRoadmap(doc) ==
  IF doc = <<>> THEN <<>>
  ELSE IF Len(Segment(doc).sections) = 0 THEN FallbackRender(doc)
  ELSE Cards(Segment(doc).introLines, Segment(doc).sections)

(***************************************************************************)
(* The server: POST /api/generate-roadmap behind ensureAuthenticated       *)
(***************************************************************************)

\* a variant of the middleware that lets every request through
ensureAuthenticatedOpen(configured, authenticated) == 0

\* ensureAuthenticated: 0 stands for next(), otherwise the status it answers
ensureAuthenticated(configured, authenticated) ==
  IF ~configured THEN 503
  ELSE IF authenticated THEN 0
  ELSE 401

\* the route handler up to its first await: 0 stands for "the main completion
\* call is made", otherwise the status it answers
RouteEntry(hasClient, goalAndTimeframe) ==
  IF ~hasClient THEN 500
  ELSE IF ~goalAndTimeframe THEN 400
  ELSE 0

\* "Sorry, I couldn't generate a roadmap. Please try again."
SorryText == <<"Sorry", ",", " ", "I", " ", "couldn't", " ", "generate", " ", "a", " ",
               "roadmap", ".", " ", "Please", " ", "try", " ", "again", ".">>

\* what a completion call resolves to: message.content is a string, or is not
NotAString == <<"undefined">>

\* typeof content === "string" && content.trim() ? content.trim() : "Sorry, ..."
MainRoadmap(content) ==
  IF content # NotAString /\ trim(content) # <<>> THEN trim(content) ELSE SorryText

\* /yt\s*tutorials/i.test(roadmap)
MentionsYtTutorials(roadmap) ==
  \E p \in 1..Len(roadmap) :
    /\ LowerSym(roadmap[p]) = "yt"
    /\ LowerSym(At(roadmap, SkipWhite(roadmap, p + 1))) = "tutorials"

\* generateYTTutorialsFallback: typeof content === "string" ? content.trim() : "",
\* and "" when the call throws
FallbackSection(outcome) ==
  IF outcome.threw \/ outcome.content = NotAString THEN <<>> ELSE trim(outcome.content)

\* a variant that appends whatever the fallback returned
WithYtSectionAlways(roadmap, ytSection) == roadmap \o <<"\n", "\n">> \o ytSection

\* if (ytSection) roadmap = `${roadmap}\n\n${ytSection}`
WithYtSection(roadmap, ytSection) ==
  IF ytSection # <<>> THEN roadmap \o <<"\n", "\n">> \o ytSection ELSE roadmap

\* Number(error?.status) || 500
ErrorStatus(status) == IF status = 0 THEN 500 ELSE status

(***************************************************************************)
(* Inputs                                                                  *)
(***************************************************************************)

\* the greatest number of submissions that are accepted
MaxJobs == 3

\* What the main completion call can resolve to: a document with a phase and
\* the YT Tutorials section, blank text, or no string.
ContentA == <<"#", "#", " ", "Phase", " ", "1", ":", " ", "Basics", "\r", "\n",
              "-", " ", "Learn", " ", "Docs", "\r", "\n",
              "#", "#", " ", "YT", " ", "Tutorials", "\n">>
MainContents == {ContentA, <<" ">>, NotAString}

\* What the fallback call can resolve to.
YtContent == <<"YT", " ", "Tutorials", "\n">>
FallbackContents == {YtContent, <<" ">>, NotAString}

\* error.status of a failed completion call: 0 stands for none
CallErrorStatuses == {0, 429}

\* ?auth= of the page URL
AuthResults == {"none", "failed", "disabled"}

(***************************************************************************)
(* State                                                                   *)
(***************************************************************************)

VARIABLES
  \* the page
  isAuthenticated, authConfigured, lastRoadmapMarkdown, renderJobId,
  innerHTML, statusMessage, copyBtnHidden, generateBtnDisabled,
  btnSpinnerHidden, skeletonHidden, contentHidden, href, sessionCheck,
  \* the invocations of the submit handler, by jobId
  jobs,
  \* the server and the session of this browser
  isGoogleAuthConfigured, nvidiaClient, sessionAuthenticated,
  \* history: the job of the last write to innerHTML, the number of lines it
  \* rendered out of how many, whether it was the final render; and the job of
  \* the last write to lastRoadmapMarkdown
  shown,
  \* a text function alone: its argument, what it returns, which one ran, and
  \* the array it filled line by line
  md, html, stage, output

pageVars == <<isAuthenticated, authConfigured, lastRoadmapMarkdown, renderJobId,
              innerHTML, statusMessage, copyBtnHidden, generateBtnDisabled,
              btnSpinnerHidden, skeletonHidden, contentHidden, href, sessionCheck>>
serverVars == <<isGoogleAuthConfigured, nvidiaClient, sessionAuthenticated>>
builderVars == <<md, html, stage, output>>
vars == <<pageVars, jobs, serverVars, shown, builderVars>>

JobIds == 1..MaxJobs

NoResponse == [status |-> 0, roadmap |-> <<>>, error |-> ""]

IdleJob == [pc |-> "idle", response |-> NoResponse, roadmap |-> <<>>, i |-> 0,
            completed |-> "none", failed |-> FALSE, mainCalls |-> 0, fallbackCalls |-> 0]

\* an invocation of the submit handler that has returned
Returned(completed, failed) ==
  [IdleJob EXCEPT !.pc = "done", !.completed = completed, !.failed = failed]

NothingShown == [job |-> 0, lines |-> 0, total |-> 0, final |-> FALSE, markdownJob |-> 0]

\* Status texts
GeneratingText == "Generating a tailored roadmap with NVIDIA Llama 3 8B..."
WritingText == "Writing your roadmap..."
GeneratedText == "Roadmap generated. You can tweak the inputs and regenerate."
NotConfiguredText == "Google auth is not configured on the server. Please set it in .env."
RedirectingText == "Redirecting to Google sign-in..."
MissingInputText == "Please provide at least your main goal and timeframe."
SignInFailedText == "Google sign-in failed. Please try again."
SignInDisabledText == "Google sign-in is disabled because server credentials are missing."
Error503Text == "Google auth is not configured on the server. Set GOOGLE_CLIENT_ID and GOOGLE_CLIENT_SECRET in .env."
Error401Text == "Please sign in with Google to use this feature."
Error500KeyText == "NVIDIA_API_KEY is not configured on the server. Please set it in the .env file."
Error400Text == "Please provide at least a goal and timeframe."
CompletionErrorText == "Failed to generate roadmap via NVIDIA API."
FetchErrorText == "Failed to fetch"
DefaultErrorText == "Something went wrong while generating the roadmap. Please try again."
EmptyRoadmapHtml == <<"<p>Empty roadmap.</p>">>

ErrorTextOfStatus(status) ==
  CASE status = 503 -> Error503Text
    [] status = 401 -> Error401Text
    [] status = 400 -> Error400Text
    [] OTHER -> Error500KeyText

(***************************************************************************)
(* The page: checkAuthSession, setLoading, the submit handler and          *)
(* renderRoadmapLineByLine                                                 *)
(***************************************************************************)

\* setGenerateAvailability: generateBtn.disabled = !authConfigured
GenerateDisabled(configured) == ~configured

\* a variant without the staleness test: no job is ever taken for superseded
IsSupersededNever(jobId, latest) == FALSE

\* jobId !== renderJobId
IsSuperseded(jobId, latest) == jobId # latest

\* a variant of the catch block that shows no text
CatchMessageBlank(message) == ""

\* error.message || "Something went wrong ..."
CatchMessage(message) == IF message = "" THEN DefaultErrorText ELSE message

\* a variant of the final render without the placeholder
FinalHtmlBare(roadmap) == buildCollapsibleRoadmap(roadmap)

\* buildCollapsibleRoadmap(roadmap) || "<p>Empty roadmap.</p>"
FinalHtml(roadmap) ==
  IF buildCollapsibleRoadmap(roadmap) = <<>> THEN EmptyRoadmapHtml
  ELSE buildCollapsibleRoadmap(roadmap)

\* streamed after k passes of the loop: lines[0] to lines[k - 1] joined by "\n"
Streamed(roadmap, k) == join(Take(split(roadmap), k))

\* what one pass of the loop writes to innerHTML
StepHtml(roadmap, k) == buildCollapsibleRoadmap(Streamed(roadmap, k))

\* what the submit handler does before setLoading(true): "accept", or the
\* status text of the early return
SubmitGate(configured, authenticated, goalAndTimeframe) ==
  IF ~configured THEN NotConfiguredText
  ELSE IF ~authenticated THEN RedirectingText
  ELSE IF ~goalAndTimeframe THEN MissingInputText
  ELSE "accept"

\* checkAuthSession resolves: the answer of GET /api/auth/session, or a failure
CheckAuthSession ==
  /\ href = "page"
  /\ sessionCheck = "pending"
  /\ \E ok \in BOOLEAN :
       LET configured == IF ok THEN isGoogleAuthConfigured ELSE FALSE
           authenticated == IF ok THEN sessionAuthenticated ELSE FALSE
       IN /\ authConfigured' = configured
          \* updateAuthUI: without configuration nobody is signed in
          /\ isAuthenticated' = (configured /\ authenticated)
          /\ generateBtnDisabled' = GenerateDisabled(configured)
  /\ sessionCheck' = "done"
  /\ UNCHANGED <<lastRoadmapMarkdown, renderJobId, innerHTML, statusMessage,
                 copyBtnHidden,
                 btnSpinnerHidden, skeletonHidden, contentHidden, href, jobs,
                 serverVars, shown, builderVars>>

\* the session of this browser ends (it expires, or the user signs out elsewhere)
SessionEnds ==
  /\ sessionAuthenticated
  /\ sessionAuthenticated' = FALSE
  /\ UNCHANGED <<pageVars, jobs, isGoogleAuthConfigured, nvidiaClient, shown, builderVars>>

\* a submit event that returns before setLoading(true)
SubmitRefused ==
  /\ href = "page"
  /\ \E goalAndTimeframe \in BOOLEAN :
       LET gate == SubmitGate(authConfigured, isAuthenticated, goalAndTimeframe)
       IN /\ gate # "accept"
          /\ statusMessage' = gate
          /\ href' = IF gate = RedirectingText THEN "/auth/google" ELSE href
  /\ UNCHANGED <<isAuthenticated, authConfigured, lastRoadmapMarkdown, renderJobId,
                 innerHTML, copyBtnHidden, generateBtnDisabled,
                 btnSpinnerHidden, skeletonHidden,
                 contentHidden, sessionCheck, jobs, serverVars, shown, builderVars>>

\* a variant of the accepted submit in which setLoading(true) does not count:
\* the new invocation runs under the id of the one before
SubmitAcceptedWithoutCount ==
  /\ href = "page"
  /\ \E j \in JobIds : jobs[j].pc = "idle"
  /\ SubmitGate(authConfigured, isAuthenticated, TRUE) = "accept"
  /\ renderJobId' = renderJobId
  /\ generateBtnDisabled' = TRUE
  /\ btnSpinnerHidden' = FALSE
  /\ skeletonHidden' = FALSE
  /\ contentHidden' = TRUE
  /\ copyBtnHidden' = TRUE
  /\ lastRoadmapMarkdown' = <<>>
  /\ statusMessage' = GeneratingText
  /\ LET j == CHOOSE i \in JobIds : jobs[i].pc = "idle" /\ \A k \in JobIds : k < i => jobs[k].pc # "idle"
     IN jobs' = [jobs EXCEPT ![j] = [IdleJob EXCEPT !.pc = "sent"]]
  /\ shown' = [shown EXCEPT !.markdownJob = renderJobId]
  /\ UNCHANGED <<isAuthenticated, authConfigured, innerHTML, href, sessionCheck,
                 serverVars, builderVars>>

\* a submit event that passes the gate: setLoading(true), jobId, fetch.  The
\* handler does not look at the button, so a submit event is taken to be
\* possible while earlier jobs are in flight.
SubmitAccepted ==
  /\ href = "page"
  /\ renderJobId < MaxJobs
  /\ SubmitGate(authConfigured, isAuthenticated, TRUE) = "accept"
  /\ renderJobId' = renderJobId + 1
  /\ generateBtnDisabled' = TRUE
  /\ btnSpinnerHidden' = FALSE
  /\ skeletonHidden' = FALSE
  /\ contentHidden' = TRUE
  /\ copyBtnHidden' = TRUE
  /\ lastRoadmapMarkdown' = <<>>
  /\ statusMessage' = GeneratingText
  /\ jobs' = [jobs EXCEPT ![renderJobId + 1] = [IdleJob EXCEPT !.pc = "sent"]]
  /\ shown' = [shown EXCEPT !.markdownJob = renderJobId + 1]
  /\ UNCHANGED <<isAuthenticated, authConfigured, innerHTML, href, sessionCheck,
                 serverVars, builderVars>>

\* the request reaches the server: ensureAuthenticated, then the handler up to
\* its first await
ServerReceives(j) ==
  /\ jobs[j].pc = "sent"
  /\ LET gate == ensureAuthenticated(isGoogleAuthConfigured, sessionAuthenticated)
         entry == IF gate # 0 THEN gate ELSE RouteEntry(nvidiaClient, TRUE)
     IN jobs' = [jobs EXCEPT ![j] =
          IF entry # 0
          THEN [@ EXCEPT !.pc = "responded",
                         !.response = [status |-> entry, roadmap |-> <<>>,
                                       error |-> ErrorTextOfStatus(entry)]]
          ELSE [@ EXCEPT !.pc = "main", !.mainCalls = @ + 1]]
  /\ UNCHANGED <<pageVars, serverVars, shown, builderVars>>

\* the main completion call resolves
ServerMainResolves(j) ==
  /\ jobs[j].pc = "main"
  /\ \E content \in MainContents :
       LET roadmap == MainRoadmap(content)
       IN jobs' = [jobs EXCEPT ![j] =
            IF MentionsYtTutorials(roadmap)
            THEN [@ EXCEPT !.pc = "responded",
                           !.response = [status |-> 200, roadmap |-> roadmap, error |-> ""]]
            ELSE [@ EXCEPT !.pc = "fallback",
                           !.response = [status |-> 0, roadmap |-> roadmap, error |-> ""],
                           !.fallbackCalls = @ + 1]]
  /\ UNCHANGED <<pageVars, serverVars, shown, builderVars>>

\* the main completion call throws
ServerMainThrows(j) ==
  /\ jobs[j].pc = "main"
  /\ \E status \in CallErrorStatuses :
       jobs' = [jobs EXCEPT ![j] =
         [@ EXCEPT !.pc = "responded",
                   !.response = [status |-> ErrorStatus(status), roadmap |-> <<>>,
                                 error |-> CompletionErrorText]]]
  /\ UNCHANGED <<pageVars, serverVars, shown, builderVars>>

\* generateYTTutorialsFallback returns
ServerFallbackReturns(j) ==
  /\ jobs[j].pc = "fallback"
  /\ \E outcome \in [threw : {FALSE}, content : FallbackContents]
                    \cup {[threw |-> TRUE, content |-> NotAString]} :
       jobs' = [jobs EXCEPT ![j] =
         [@ EXCEPT !.pc = "responded",
                   !.response = [status |-> 200,
                                 roadmap |-> WithYtSection(@.roadmap, FallbackSection(outcome)),
                                 error |-> ""]]]
  /\ UNCHANGED <<pageVars, serverVars, shown, builderVars>>

\* a variant whose finally block calls setLoading(false) whatever the job id
CatchThenAlwaysEndsLoading(j, message) ==
  /\ IF IsSuperseded(j, renderJobId)
     THEN UNCHANGED <<lastRoadmapMarkdown, copyBtnHidden, statusMessage, shown>>
     ELSE /\ lastRoadmapMarkdown' = <<>>
          /\ shown' = [shown EXCEPT !.markdownJob = j]
          /\ copyBtnHidden' = TRUE
          /\ statusMessage' = CatchMessage(message)
  /\ btnSpinnerHidden' = TRUE
  /\ skeletonHidden' = TRUE
  /\ contentHidden' = FALSE
  /\ jobs' = [jobs EXCEPT ![j] = Returned("none", ~IsSuperseded(j, renderJobId))]
  /\ UNCHANGED <<authConfigured, renderJobId, innerHTML, href, sessionCheck,
                 serverVars, builderVars>>

\* the catch and finally blocks of the submit handler, for job j
Catch(j, message) ==
  /\ IF IsSuperseded(j, renderJobId)
     THEN UNCHANGED <<lastRoadmapMarkdown, copyBtnHidden, statusMessage,
                      btnSpinnerHidden, skeletonHidden, contentHidden, shown>>
     ELSE /\ lastRoadmapMarkdown' = <<>>
          /\ shown' = [shown EXCEPT !.markdownJob = j]
          /\ copyBtnHidden' = TRUE
          /\ statusMessage' = CatchMessage(message)
          \* finally: setLoading(false)
          /\ btnSpinnerHidden' = TRUE
          /\ skeletonHidden' = TRUE
          /\ contentHidden' = FALSE
  /\ jobs' = [jobs EXCEPT ![j] = Returned("none", ~IsSuperseded(j, renderJobId))]
  /\ UNCHANGED <<authConfigured, renderJobId, innerHTML, href, sessionCheck,
                 serverVars, builderVars>>

\* fetch or response.json() rejects
FetchRejects(j) ==
  /\ href = "page"
  /\ jobs[j].pc \in {"sent", "main", "fallback", "responded"}
  /\ Catch(j, FetchErrorText)
  /\ generateBtnDisabled' =
       IF IsSuperseded(j, renderJobId) THEN generateBtnDisabled
       ELSE GenerateDisabled(authConfigured)
  /\ UNCHANGED isAuthenticated

\* the response arrives and is not ok
ResponseNotOk(j) ==
  /\ href = "page"
  /\ jobs[j].pc = "responded"
  /\ jobs[j].response.status # 200
  /\ Catch(j, jobs[j].response.error)
  \* a 401 signs the page out and runs updateAuthUI
  /\ isAuthenticated' = IF jobs[j].response.status = 401 THEN FALSE ELSE isAuthenticated
  /\ generateBtnDisabled' =
       IF jobs[j].response.status = 401 \/ ~IsSuperseded(j, renderJobId)
       THEN GenerateDisabled(authConfigured)
       ELSE generateBtnDisabled

\* the response arrives and is ok: the handler runs on into renderRoadmapLineByLine
\* up to the first delay
ResponseOk(j) ==
  /\ href = "page"
  /\ jobs[j].pc = "responded"
  /\ jobs[j].response.status = 200
  /\ LET roadmap == jobs[j].response.roadmap
     IN /\ lastRoadmapMarkdown' = roadmap
        /\ skeletonHidden' = TRUE
        /\ contentHidden' = FALSE
        /\ statusMessage' = WritingText
        /\ IF IsSuperseded(j, renderJobId)
           THEN /\ innerHTML' = <<>>
                /\ shown' = [job |-> j, lines |-> 0, total |-> Len(split(roadmap)),
                             final |-> FALSE, markdownJob |-> j]
                /\ jobs' = [jobs EXCEPT ![j] = Returned("false", FALSE)]
           ELSE /\ innerHTML' = StepHtml(roadmap, 1)
                /\ shown' = [job |-> j, lines |-> 1, total |-> Len(split(roadmap)),
                             final |-> FALSE, markdownJob |-> j]
                /\ jobs' = [jobs EXCEPT ![j] =
                     [@ EXCEPT !.pc = "reveal", !.response = NoResponse,
                               !.roadmap = roadmap, !.i = 1]]
  /\ UNCHANGED <<isAuthenticated, authConfigured, renderJobId, copyBtnHidden,
                 generateBtnDisabled, btnSpinnerHidden, href, sessionCheck,
                 serverVars, builderVars>>

\* a delay of the loop ends and lines are left
RevealStep(j) ==
  /\ href = "page"
  /\ jobs[j].pc = "reveal"
  /\ jobs[j].i < Len(split(jobs[j].roadmap))
  /\ IF IsSuperseded(j, renderJobId)
     THEN /\ jobs' = [jobs EXCEPT ![j] = Returned("false", FALSE)]
          /\ UNCHANGED <<innerHTML, shown>>
     ELSE /\ innerHTML' = StepHtml(jobs[j].roadmap, jobs[j].i + 1)
          /\ shown' = [shown EXCEPT !.job = j, !.lines = jobs[j].i + 1,
                                    !.total = Len(split(jobs[j].roadmap)),
                                    !.final = FALSE]
          /\ jobs' = [jobs EXCEPT ![j] = [@ EXCEPT !.i = @ + 1]]
  /\ UNCHANGED <<isAuthenticated, authConfigured, lastRoadmapMarkdown, renderJobId,
                 statusMessage, copyBtnHidden, generateBtnDisabled,
                 btnSpinnerHidden, skeletonHidden,
                 contentHidden, href, sessionCheck, serverVars, builderVars>>

\* a variant in which a run that finds itself superseded after its last delay
\* still shows the Copy button
RevealFinishShowsCopy(j) ==
  /\ href = "page"
  /\ jobs[j].pc = "reveal"
  /\ jobs[j].i = Len(split(jobs[j].roadmap))
  /\ IF IsSuperseded(j, renderJobId)
     THEN /\ jobs' = [jobs EXCEPT ![j] = Returned("false", FALSE)]
          /\ copyBtnHidden' = IF lastRoadmapMarkdown # <<>> THEN FALSE ELSE copyBtnHidden
          /\ UNCHANGED <<innerHTML, shown, statusMessage, generateBtnDisabled,
                         btnSpinnerHidden, skeletonHidden, contentHidden>>
     ELSE /\ innerHTML' = FinalHtml(jobs[j].roadmap)
          /\ shown' = [shown EXCEPT !.job = j, !.lines = jobs[j].i,
                                    !.total = Len(split(jobs[j].roadmap)),
                                    !.final = TRUE]
          /\ jobs' = [jobs EXCEPT ![j] = Returned("true", FALSE)]
          /\ statusMessage' = GeneratedText
          /\ copyBtnHidden' = IF lastRoadmapMarkdown # <<>> THEN FALSE ELSE copyBtnHidden
          /\ generateBtnDisabled' = GenerateDisabled(authConfigured)
          /\ btnSpinnerHidden' = TRUE
          /\ skeletonHidden' = TRUE
          /\ contentHidden' = FALSE
  /\ UNCHANGED <<isAuthenticated, authConfigured, lastRoadmapMarkdown, renderJobId,
                 href, sessionCheck, serverVars, builderVars>>

\* the last delay ends: the final render, and the rest of the submit handler
RevealFinish(j) ==
  /\ href = "page"
  /\ jobs[j].pc = "reveal"
  /\ jobs[j].i = Len(split(jobs[j].roadmap))
  /\ IF IsSuperseded(j, renderJobId)
     THEN /\ jobs' = [jobs EXCEPT ![j] = Returned("false", FALSE)]
          /\ UNCHANGED <<innerHTML, shown, statusMessage, copyBtnHidden,
                         generateBtnDisabled,
                         btnSpinnerHidden, skeletonHidden, contentHidden>>
     ELSE /\ innerHTML' = FinalHtml(jobs[j].roadmap)
          /\ shown' = [shown EXCEPT !.job = j, !.lines = jobs[j].i,
                                    !.total = Len(split(jobs[j].roadmap)),
                                    !.final = TRUE]
          /\ jobs' = [jobs EXCEPT ![j] = Returned("true", FALSE)]
          /\ statusMessage' = GeneratedText
          /\ copyBtnHidden' = IF lastRoadmapMarkdown # <<>> THEN FALSE ELSE copyBtnHidden
          \* finally: setLoading(false)
          /\ generateBtnDisabled' = GenerateDisabled(authConfigured)
          /\ btnSpinnerHidden' = TRUE
          /\ skeletonHidden' = TRUE
          /\ contentHidden' = FALSE
  /\ UNCHANGED <<isAuthenticated, authConfigured, lastRoadmapMarkdown, renderJobId,
                 href, sessionCheck, serverVars, builderVars>>

Init ==
  /\ isAuthenticated = FALSE
  /\ authConfigured = TRUE
  /\ lastRoadmapMarkdown = <<>>
  /\ renderJobId = 0
  /\ innerHTML = <<>>
  /\ \E authResult \in AuthResults :
       statusMessage = CASE authResult = "failed" -> SignInFailedText
                         [] authResult = "disabled" -> SignInDisabledText
                         [] OTHER -> ""
  /\ copyBtnHidden = TRUE
  /\ generateBtnDisabled = FALSE
  /\ btnSpinnerHidden = TRUE
  /\ skeletonHidden = TRUE
  /\ contentHidden = FALSE
  /\ href = "page"
  /\ sessionCheck = "pending"
  /\ jobs = [j \in JobIds |-> IdleJob]
  /\ isGoogleAuthConfigured \in BOOLEAN
  /\ nvidiaClient \in BOOLEAN
  /\ sessionAuthenticated \in {a \in BOOLEAN : a => isGoogleAuthConfigured}
  /\ shown = NothingShown
  /\ md = <<>>
  /\ html = <<>>
  /\ stage = "none"
  /\ output = <<>>

Next ==
  \/ CheckAuthSession
  \/ SessionEnds
  \/ SubmitRefused
  \/ SubmitAccepted
  \/ \E j \in JobIds :
       \/ ServerReceives(j)
       \/ ServerMainResolves(j)
       \/ ServerMainThrows(j)
       \/ ServerFallbackReturns(j)
       \/ FetchRejects(j)
       \/ ResponseNotOk(j)
       \/ ResponseOk(j)
       \/ RevealStep(j)
       \/ RevealFinish(j)

Spec == Init /\ [][Next]_vars

\* what can happen to the request and the reveal of job j: the server
\* answers, the fetch settles, a delay of the reveal ends
JobStep(j) ==
  \/ ServerReceives(j)
  \/ ServerMainResolves(j)
  \/ ServerMainThrows(j)
  \/ ServerFallbackReturns(j)
  \/ FetchRejects(j)
  \/ ResponseNotOk(j)
  \/ ResponseOk(j)
  \/ RevealStep(j)
  \/ RevealFinish(j)

\* the greatest number of submissions that are accepted where the runs are
\* followed to their end
MaxLiveJobs == 2

NextLive ==
  \/ CheckAuthSession
  \/ SessionEnds
  \/ SubmitRefused
  \/ renderJobId < MaxLiveJobs /\ SubmitAccepted
  \/ \E j \in JobIds : JobStep(j)

\* when JobStep(j) can be taken: the server works on whatever the page does;
\* the page takes up a response, or the end of a delay, while it is open
CanStep(j) ==
  \/ jobs[j].pc \in {"sent", "main", "fallback"}
  \/ href = "page" /\ jobs[j].pc \in {"responded", "reveal"}

\* WF_vars(JobStep(j)), with CanStep(j) written for ENABLED <<JobStep(j)>>_vars
FairJob(j) == []<>(~CanStep(j)) \/ []<><<JobStep(j)>>_vars

\* every request settles and every timer fires: a job that can take a step
\* is not left waiting for ever
SpecLive == Init /\ [][NextLive]_vars /\ \A j \in JobIds : FairJob(j)

(***************************************************************************)
(* buildCollapsibleRoadmap alone, applied to bounded documents             *)
(***************************************************************************)

\* the greatest number of lines of a document
MaxLines == 3

LinePhase1 == <<"#", "#", " ", "Phase", " ", "1", ":", " ", "Basics">>
LinePhase2 == <<"Phase", " ", "2", ":", " ", "Build">>
LinePhase3 == <<"#", "#", " ", "Phase", " ", "3", ":", " ", "Intro">>
LineYt == <<"#", "#", " ", "YT", " ", "Tutorials">>
LineResources == <<"Recommended", " ", "Resources">>
LineObjectives == <<"Objectives">>
LineLink == <<"-", " ", "[", "Docs", "]", "(", "https://", "x.io", ")">>
LineUrl == <<"Learn", " ", "https://", "x.io">>
LineItem == <<"-", " ", "Learn", " ", "Docs">>
LineBareUrl == <<"https://", "x.io">>
LineBlank == <<>>

BuildLines == {LinePhase1, LinePhase2, LinePhase3, LineYt, LineResources,
               LineObjectives, LineLink, LineUrl, LineItem, LineBareUrl,
               LineBlank}

\* the documents of at most MaxLines lines
Docs == {join(ls) : ls \in UNION {[1..n -> BuildLines] : n \in 0..MaxLines}}

InitBuild ==
  /\ isAuthenticated = FALSE
  /\ authConfigured = TRUE
  /\ lastRoadmapMarkdown = <<>>
  /\ renderJobId = 0
  /\ innerHTML = <<>>
  /\ statusMessage = ""
  /\ copyBtnHidden = TRUE
  /\ generateBtnDisabled = FALSE
  /\ btnSpinnerHidden = TRUE
  /\ skeletonHidden = TRUE
  /\ contentHidden = FALSE
  /\ href = "page"
  /\ sessionCheck = "pending"
  /\ jobs = [j \in JobIds |-> IdleJob]
  /\ isGoogleAuthConfigured = FALSE
  /\ nvidiaClient = FALSE
  /\ sessionAuthenticated = FALSE
  /\ shown = NothingShown
  /\ md \in Docs
  /\ html = <<>>
  /\ stage = "none"
  /\ output = <<>>

\* one call of buildCollapsibleRoadmap(md): introLines and sections as the loop
\* leaves them (none for the empty text, which returns at once), and the text
\* returned
Build ==
  /\ stage = "none"
  /\ output' = IF md = <<>> THEN <<>> ELSE Segment(md)
  /\ html' = buildCollapsibleRoadmap(md)
  /\ stage' = "built"
  /\ UNCHANGED <<pageVars, jobs, serverVars, shown, md>>

NextBuild == Build

SpecBuild == InitBuild /\ [][NextBuild]_vars

(***************************************************************************)
(* stripLinksExceptRecommendedResources alone, applied to what the builder *)
(* passes to it: lines joined and trimmed                                  *)
(***************************************************************************)

\* the page and the server are not involved
AtRest ==
  /\ isAuthenticated = FALSE
  /\ authConfigured = TRUE
  /\ lastRoadmapMarkdown = <<>>
  /\ renderJobId = 0
  /\ innerHTML = <<>>
  /\ statusMessage = ""
  /\ copyBtnHidden = TRUE
  /\ generateBtnDisabled = FALSE
  /\ btnSpinnerHidden = TRUE
  /\ skeletonHidden = TRUE
  /\ contentHidden = FALSE
  /\ href = "page"
  /\ sessionCheck = "pending"
  /\ jobs = [j \in JobIds |-> IdleJob]
  /\ isGoogleAuthConfigured = FALSE
  /\ nvidiaClient = FALSE
  /\ sessionAuthenticated = FALSE
  /\ shown = NothingShown

LineSchemeAndUrl == <<"https://", " ", "Docs", " ", "https://", "x.io">>
LineAutolink == <<"Docs", " ", "<", "https://", "x.io", ">">>
LineUrlSpace == <<" ", "-", " ", "http://", "x.io", " ">>
LineResourcesIndented == <<" ", "Recommended", " ", "Resources", ":">>

SanitizerLines == {LineResources, LineObjectives, LinePhase2, LineLink, LineUrl,
                   LineSchemeAndUrl, LineAutolink, LineUrlSpace, LineBareUrl,
                   LineResourcesIndented, LineBlank}

\* lines.join("\n").trim() over the contents of at most MaxLines lines
SanitizerTexts ==
  {trim(join(ls)) : ls \in UNION {[1..n -> SanitizerLines] : n \in 0..MaxLines}}

InitSanitize ==
  /\ AtRest
  /\ md \in SanitizerTexts
  /\ html = <<>>
  /\ stage = "none"
  /\ output = <<>>

\* one call of stripLinksExceptRecommendedResources(md): the array as the loop
\* leaves it, and the text returned ("" at once for the empty text)
Sanitize ==
  /\ stage = "none"
  /\ output' = IF md = <<>> THEN <<>> ELSE StripLoop(split(md), FALSE)
  /\ html' = stripLinksExceptRecommendedResources(md)
  /\ stage' = "sanitized"
  /\ UNCHANGED <<pageVars, jobs, serverVars, shown, md>>

NextSanitize == Sanitize

SpecSanitize == InitSanitize /\ [][NextSanitize]_vars
(***************************************************************************)
(* renderRoadmapLineByLine alone: the response to the first submission has *)
(* arrived, with any roadmap, and a second submission can supersede it     *)
(***************************************************************************)

\* the page after setLoading(true) of the first submission, the response ok
InitReveal ==
  /\ isAuthenticated = TRUE
  /\ authConfigured = TRUE
  /\ lastRoadmapMarkdown = <<>>
  /\ renderJobId = 1
  /\ innerHTML = <<>>
  /\ statusMessage = GeneratingText
  /\ copyBtnHidden = TRUE
  /\ generateBtnDisabled = TRUE
  /\ btnSpinnerHidden = FALSE
  /\ skeletonHidden = FALSE
  /\ contentHidden = TRUE
  /\ href = "page"
  /\ sessionCheck = "done"
  /\ \E roadmap \in Docs :
       jobs = [j \in JobIds |->
                 IF j = 1
                 THEN [IdleJob EXCEPT !.pc = "responded", !.mainCalls = 1,
                                      !.response = [status |-> 200, roadmap |-> roadmap,
                                                    error |-> ""]]
                 ELSE IdleJob]
  /\ isGoogleAuthConfigured = TRUE
  /\ nvidiaClient = TRUE
  /\ sessionAuthenticated = TRUE
  /\ shown = [NothingShown EXCEPT !.markdownJob = 1]
  /\ md = <<>>
  /\ html = <<>>
  /\ stage = "none"
  /\ output = <<>>

\* what the page does with the response of job j: the handler runs into
\* renderRoadmapLineByLine, and a delay of the loop ends
RevealStepOf(j) == ResponseOk(j) \/ RevealStep(j) \/ RevealFinish(j)

NextReveal ==
  \/ renderJobId < MaxLiveJobs /\ SubmitAccepted
  \/ \E j \in JobIds : RevealStepOf(j)

\* when RevealStepOf(j) can be taken
CanReveal(j) ==
  /\ href = "page"
  /\ \/ jobs[j].pc = "responded" /\ jobs[j].response.status = 200
     \/ jobs[j].pc = "reveal"

\* every timer fires: WF_vars(RevealStepOf(j)), with CanReveal(j) written for
\* ENABLED <<RevealStepOf(j)>>_vars
FairReveal(j) == []<>(~CanReveal(j)) \/ []<><<RevealStepOf(j)>>_vars

SpecReveal == InitReveal /\ [][NextReveal]_vars /\ \A j \in JobIds : FairReveal(j)

(***************************************************************************)
(* Properties of the page and the server, under Spec                       *)
(***************************************************************************)

\* C1: a superseded render job never mutates the displayed output: whatever
\* stage it was superseded in, no later step of it writes innerHTML, the
\* status message or lastRoadmapMarkdown.
C1_SupersededJobWritesNothing ==
  [][\A j \in JobIds :
       (jobs[j].pc \notin {"idle", "done"} /\ j # renderJobId /\ jobs'[j] # jobs[j])
       => /\ innerHTML' = innerHTML
          /\ statusMessage' = statusMessage
          /\ lastRoadmapMarkdown' = lastRoadmapMarkdown]_vars

\* every accepted submission has returned
AllSettled ==
  /\ renderJobId >= 1
  /\ \A j \in 1..renderJobId : jobs[j].pc = "done"

\* C2: last submission wins: once every request has settled, lastRoadmapMarkdown
\* was last written by the most recently submitted job, and when that job
\* rendered its roadmap, the displayed document is its final render.
C2_LastSubmissionWins ==
  AllSettled =>
    /\ shown.markdownJob = renderJobId
    /\ jobs[renderJobId].completed = "true" =>
         /\ shown.job = renderJobId
         /\ shown.final
         /\ innerHTML = FinalHtml(lastRoadmapMarkdown)

\* C3: a run that is paused between two line steps when a newer submission is
\* accepted writes nothing when its pause ends and returns false; while it is
\* superseded the display changes only through a newer job; and once a newer
\* job has written the display, the run never writes it again.
C3_PausedRunGivesWay ==
  [][\A j \in JobIds :
       /\ (jobs[j].pc = "reveal" /\ j # renderJobId) =>
            /\ (jobs'[j] # jobs[j]) =>
                 /\ innerHTML' = innerHTML
                 /\ jobs'[j].pc = "done"
                 /\ jobs'[j].completed = "false"
            /\ (innerHTML' # innerHTML) => shown'.job > j
       /\ (jobs[j].pc \in {"reveal", "done"} /\ j # renderJobId /\ shown.job > j) =>
            shown'.job # j]_vars

\* C4: whenever renderRoadmapLineByLine(roadmap, jobId) returns true, innerHTML
\* is buildCollapsibleRoadmap(roadmap), or the placeholder when that is empty,
\* and jobId is renderJobId.
C4_TrueMeansFullRender ==
  [][\A j \in JobIds :
       (jobs[j].completed # "true" /\ jobs'[j].completed = "true") =>
         /\ innerHTML' = IF buildCollapsibleRoadmap(jobs[j].roadmap) = <<>>
                         THEN <<"<p>Empty roadmap.</p>">>
                         ELSE buildCollapsibleRoadmap(jobs[j].roadmap)
         /\ j = renderJobId']_vars

\* a run has returned true after more than one line step
C4_Witness ==
  \E j \in JobIds :
    /\ jobs[j].completed = "true"
    /\ renderJobId = j
    /\ shown = [job |-> j, lines |-> shown.total, total |-> shown.total,
                final |-> TRUE, markdownJob |-> j]
    /\ shown.total >= 2
    /\ innerHTML # <<>>

\* the texts the catch block can show
ErrorTexts == {Error503Text, Error401Text, Error500KeyText, Error400Text,
               CompletionErrorText, FetchErrorText, DefaultErrorText}

C6_NoPartialDocumentAfterFailure ==
  (renderJobId >= 1 /\ jobs[renderJobId].failed /\ ~contentHidden) =>
    ~(~shown.final /\ shown.lines >= 1 /\ shown.lines < shown.total)

\* C7: a submission while the page is not authenticated, or auth is not
\* configured, accepts no job: renderJobId stays and no request is sent; and
\* the server answers a request that is not authenticated with 401, or 503
\* when Google auth is not configured, without a completion call.
C7_NoGenerationUnauthenticated ==
  [][/\ (~authConfigured \/ ~isAuthenticated) =>
          /\ renderJobId' = renderJobId
          /\ \A j \in JobIds : jobs[j].pc = "idle" => jobs'[j].pc = "idle"
     /\ \A j \in JobIds :
          (/\ jobs[j].pc = "sent"
           /\ jobs'[j].pc \in {"main", "fallback", "responded"}
           /\ ~(isGoogleAuthConfigured /\ sessionAuthenticated)) =>
            /\ jobs'[j].pc = "responded"
            /\ jobs'[j].response.status = IF isGoogleAuthConfigured THEN 401 ELSE 503
            /\ jobs'[j].mainCalls = 0
            /\ jobs'[j].fallbackCalls = 0
     /\ \A configured, authenticated \in BOOLEAN :
          ensureAuthenticated(configured, authenticated) =
            IF ~configured THEN 503 ELSE IF ~authenticated THEN 401 ELSE 0]_vars

\* the page has refused a submission and sent the user to sign in, and the
\* server has answered a request whose session had ended with 401
C7_Witness ==
  /\ ~isAuthenticated
  /\ href = "/auth/google"
  /\ statusMessage = RedirectingText
  /\ \E j \in JobIds :
       /\ jobs[j].pc = "responded"
       /\ jobs[j].response.status = 401
       /\ jobs[j].mainCalls = 0

\* the step is an accepted submission: an invocation of the handler leaves
\* its start, or the page goes into its loading look
AcceptedSubmission ==
  \/ \E j \in JobIds : jobs[j].pc = "idle" /\ jobs'[j].pc # "idle"
  \/ statusMessage # GeneratingText /\ statusMessage' = GeneratingText
  \/ skeletonHidden /\ ~skeletonHidden'

\* C17: renderJobId never decreases; it grows by exactly 1 at an accepted
\* submission and at no other step; the invocation that starts there runs
\* under the new value, which is greater than the id of every invocation
\* started before, so no two invocations share an id.
C17_JobIdCountsSubmissions ==
  [][/\ renderJobId' \in {renderJobId, renderJobId + 1}
     /\ AcceptedSubmission <=> renderJobId' = renderJobId + 1
     /\ \A j \in JobIds :
          (jobs[j].pc = "idle" /\ jobs'[j].pc # "idle") =>
            /\ j = renderJobId'
            /\ \A i \in JobIds : jobs[i].pc # "idle" => i < j]_vars

\* three submissions have been accepted, the first two while the one before
\* was still waiting for its response
C17_Witness ==
  /\ renderJobId = 3
  /\ \A j \in 1..3 : jobs[j].pc = "sent"

\* job j returns in this step: its invocation of the submit handler ends
ReturnsNow(j) == jobs[j].pc # "done" /\ jobs'[j].pc = "done"

\* setLoading(false) takes effect in this step: the spinner of the button,
\* which nothing else hides, goes away
LoadingEndsNow == ~btnSpinnerHidden /\ btnSpinnerHidden'

\* C23: the loading state is ended only by the current job: a step in which
\* the spinner goes away is a step in which the job whose id is renderJobId
\* returns, so a job that returns while superseded leaves the spinner of the
\* newer job alone; and the current job ends the loading state on whatever
\* path it returns.  With every request settling and every timer firing, the
\* job submitted last is not left loading for ever: it returns with the
\* loading state ended, unless a newer submission is accepted or the page is
\* left first.
C23_LoadingEndedByCurrentJob ==
  /\ [][/\ LoadingEndsNow => ReturnsNow(renderJobId)
        /\ \A j \in JobIds :
             ReturnsNow(j) =>
               IF j = renderJobId THEN btnSpinnerHidden'
               ELSE btnSpinnerHidden' = btnSpinnerHidden]_vars
  /\ \A j \in JobIds :
       (renderJobId = j /\ jobs[j].pc # "idle")
         ~> \/ jobs[j].pc = "done" /\ btnSpinnerHidden
            \/ renderJobId # j
            \/ href # "page"

\* job 1 has returned while superseded, from a pending fetch, and left the
\* newer job loading; job 2 has then completed its reveal and ended the
\* loading state
C23_Witness ==
  /\ renderJobId = 2
  /\ jobs[1] = Returned("none", FALSE)
  /\ jobs[2] = Returned("true", FALSE)
  /\ btnSpinnerHidden
  /\ ~generateBtnDisabled

\* the number of lines renderRoadmapLineByLine splits a roadmap into
LinesOf(roadmap) == Len(split(roadmap))

\* job j writes the display in the loop: one more line than before
LoopUpdate(j) ==
  /\ jobs'[j].pc = "reveal"
  /\ jobs'[j].i = jobs[j].i + 1
  /\ jobs'[j].i <= LinesOf(jobs'[j].roadmap)
  /\ shown'.job = j /\ shown'.lines = jobs'[j].i /\ ~shown'.final
  /\ innerHTML' = buildCollapsibleRoadmap(Streamed(jobs'[j].roadmap, jobs'[j].i))

\* job j writes the display after the loop and returns true
FinalUpdate(j) ==
  /\ jobs[j].pc = "reveal"
  /\ jobs[j].i = LinesOf(jobs[j].roadmap)
  /\ jobs'[j] = Returned("true", FALSE)
  /\ shown'.job = j /\ shown'.final
  /\ innerHTML' # <<>>

\* job j returns false: it writes nothing, or, when it was superseded before
\* its response came, nothing but the clearing in front of the loop
ReturnsFalse(j) ==
  /\ jobs'[j] = Returned("false", FALSE)
  /\ j # renderJobId
  /\ \/ innerHTML' = innerHTML /\ shown' = shown
     \/ jobs[j].pc = "responded" /\ innerHTML' = <<>>

\* C24: a run of renderRoadmapLineByLine ends.  For a roadmap of n lines
\* every step of the run is one display update of the loop, which shows one
\* line more than the one before and at most n, followed by a pause; or the
\* one final update, with which the run returns true; or a return of false
\* without an update.  The run returns true when it was not superseded and
\* false when it was, and with every timer firing it does return.  The empty
\* roadmap is one blank line: one update of the loop, then the final update
\* shows "Empty roadmap." and the result is true.
C24_RevealTerminates ==
  /\ [][\A j \in JobIds :
          /\ RevealStepOf(j) =>
               /\ LoopUpdate(j) \/ FinalUpdate(j) \/ ReturnsFalse(j)
               /\ ReturnsNow(j) =>
                    (jobs'[j].completed = "true" <=> j = renderJobId)
               /\ (FinalUpdate(j) /\ jobs[j].roadmap = <<>>) =>
                    /\ jobs[j].i = 1
                    /\ innerHTML = <<>>
                    /\ innerHTML' = EmptyRoadmapHtml
          /\ jobs[j].pc = "done" => jobs'[j] = jobs[j]
          /\ jobs'[j].pc = "reveal" =>
               jobs'[j].i >= 1 /\ jobs'[j].i <= LinesOf(jobs'[j].roadmap)]_vars
  /\ \A j \in JobIds :
       CanReveal(j) ~> (jobs[j].pc = "done" /\ jobs[j].completed \in {"true", "false"})

\* the run on the empty roadmap has returned true and the display holds the
\* placeholder
C24_Witness ==
  /\ jobs[1] = Returned("true", FALSE)
  /\ lastRoadmapMarkdown = <<>>
  /\ shown = [job |-> 1, lines |-> 1, total |-> 1, final |-> TRUE, markdownJob |-> 1]
  /\ innerHTML = EmptyRoadmapHtml
  /\ btnSpinnerHidden

\* the job submitted last has completed its reveal: its run returned true
CurrentJobCompleted ==
  /\ renderJobId \in JobIds
  /\ jobs[renderJobId] = Returned("true", FALSE)

\* C25: whenever the Copy button is visible, the job submitted last has
\* completed its reveal without being superseded.  Every accepted submission
\* hides the button and clears lastRoadmapMarkdown, and so does every failure
\* of the current job; the button is shown only in the step in which the job
\* whose id is renderJobId returns after its run returned true, and only
\* with a non-empty lastRoadmapMarkdown.
C25_CopyVisibleOnlyAfterCurrentReveal ==
  /\ [](~copyBtnHidden => CurrentJobCompleted)
  /\ [][/\ AcceptedSubmission => copyBtnHidden' /\ lastRoadmapMarkdown' = <<>>
        /\ \A j \in JobIds :
             (ReturnsNow(j) /\ jobs'[j].failed) =>
               j = renderJobId /\ copyBtnHidden' /\ lastRoadmapMarkdown' = <<>>
        /\ (copyBtnHidden /\ ~copyBtnHidden') =>
             /\ renderJobId \in JobIds
             /\ ReturnsNow(renderJobId)
             /\ jobs'[renderJobId].completed = "true"
             /\ lastRoadmapMarkdown' # <<>>]_vars

\* job 1 was superseded and has returned; job 2 has completed its reveal and
\* the Copy button is visible
C25_Witness ==
  /\ ~copyBtnHidden
  /\ renderJobId = 2
  /\ jobs[1].pc = "done"
  /\ jobs[2] = Returned("true", FALSE)
  /\ lastRoadmapMarkdown # <<>>

\* the request of job j is with the server or answered and not yet taken up
\* by the page
AtServer(j) == jobs[j].pc \in {"sent", "main", "fallback", "responded"}

\* what the server has made of the request of job j so far
ServerCallsInOrder(j) ==
  /\ jobs[j].mainCalls <= 1
  /\ jobs[j].fallbackCalls <= 1
  /\ jobs[j].pc = "sent" => jobs[j].mainCalls = 0 /\ jobs[j].fallbackCalls = 0
  /\ jobs[j].pc = "main" => jobs[j].mainCalls = 1 /\ jobs[j].fallbackCalls = 0
  /\ jobs[j].pc = "fallback" =>
       /\ jobs[j].mainCalls = 1 /\ jobs[j].fallbackCalls = 1
       /\ jobs[j].response.roadmap # <<>>
       /\ ~MentionsYtTutorials(jobs[j].response.roadmap)
  /\ jobs[j].pc = "responded" =>
       IF jobs[j].response.status = 200
       THEN /\ jobs[j].mainCalls = 1
            /\ jobs[j].response.roadmap # <<>>
            /\ jobs[j].fallbackCalls = 0 => MentionsYtTutorials(jobs[j].response.roadmap)
       ELSE /\ jobs[j].response.roadmap = <<>>
            /\ jobs[j].response.error # ""
            /\ jobs[j].fallbackCalls = 0
            /\ jobs[j].mainCalls = 1 => jobs[j].response.status \in {429, 500}

\* the steps of the server on the request of job j
ServerStepsInOrder(j) ==
  /\ jobs'[j].mainCalls > jobs[j].mainCalls =>
       jobs[j].pc = "sent" /\ jobs'[j].pc = "main"
  /\ jobs'[j].fallbackCalls > jobs[j].fallbackCalls =>
       jobs[j].pc = "main" /\ jobs'[j].pc = "fallback"
  /\ (jobs[j].pc = "main" /\ jobs'[j].pc = "responded") =>
       \/ /\ jobs'[j].response.status = 200
          /\ MentionsYtTutorials(jobs'[j].response.roadmap)
       \/ /\ jobs'[j].response.status \in {429, 500}
          /\ jobs'[j].response.roadmap = <<>>
  /\ (jobs[j].pc = "fallback" /\ jobs'[j].pc = "responded") =>
       /\ jobs'[j].response.status = 200
       /\ \/ jobs'[j].response.roadmap = jobs[j].response.roadmap
          \/ jobs'[j].response.roadmap
               = jobs[j].response.roadmap \o <<"\n", "\n">> \o trim(YtContent)

\* C26: for a request that passes the gates the server makes the main
\* completion call once and never again; it makes the fallback call at most
\* once, and only when the main result does not hold "yt tutorials" in any
\* casing.  When the fallback call fails or gives nothing, the roadmap stays
\* as it was; the answer is 200 with a non-empty roadmap either way.  When
\* the main call fails, the answer is an error status without a roadmap.
C26_OneMainCallOneFallback ==
  /\ [](\A j \in JobIds : AtServer(j) => ServerCallsInOrder(j))
  /\ [][\A j \in JobIds : (AtServer(j) /\ AtServer(j)') => ServerStepsInOrder(j)]_vars

\* the main call gave no text and the fallback call gave nothing: the answer
\* is 200 with the apology alone, after one call of each
C26_Witness ==
  \E j \in JobIds :
    /\ jobs[j].pc = "responded"
    /\ jobs[j].mainCalls = 1
    /\ jobs[j].fallbackCalls = 1
    /\ jobs[j].response = [status |-> 200, roadmap |-> SorryText, error |-> ""]

(***************************************************************************)
(* Properties of buildCollapsibleRoadmap, under SpecBuild                  *)
(***************************************************************************)

\* the recognised headings of a document, in the order they stand in
InputHeadings(doc) ==
  SelectSeq([k \in 1..Len(split(doc)) |-> parseSectionMeta(split(doc)[k])],
            LAMBDA m : m # NoMeta)

CardHeads == {CardHead, CardHeadOpen, StandaloneHead, StandaloneHeadOpen}
CardBodies == {CardBody, StandaloneBody}
CardFeet == {CardFoot, StandaloneFoot}

\* position p of h lies in the body of a card with this title
InBodyOfCardTitled(h, p, title) ==
  \E hd \in 1..p : \E b \in hd..p :
    /\ h[hd] \in CardHeads
    /\ h[b] \in CardBodies
    /\ SubSeq(h, hd + 1, b - 1) = title
    /\ \A q \in b..p : h[q] \notin CardFeet

\* C8: in the HTML that buildCollapsibleRoadmap returns, a URL of the input
\* occurs only in the body of a card whose title is Recommended Resources
\* (stated here for the documents that have at least one recognised section
\* heading, the ones that are built into cards).
C8_LinksOnlyInRecommendedResources ==
  (stage = "built" /\ InputHeadings(md) # <<>>) =>
    \A p \in 1..Len(html) :
      html[p] \in Schemes =>
        InBodyOfCardTitled(html, p, <<"Recommended", " ", "Resources">>)

\* the first position from p on that holds c, or Len(h) + 1
RECURSIVE Find(_, _, _)
Find(h, c, p) == IF p > Len(h) \/ h[p] = c THEN p ELSE Find(h, c, p + 1)

\* the phase blocks and the standalone cards of h, in the order they stand in
RECURSIVE OutBlocks(_, _)
OutBlocks(h, p) ==
  IF p > Len(h) THEN <<>>
  ELSE IF h[p] = PhaseBlockOpen
  THEN LET t == Find(h, PhaseTitleOpen, p)
           e == Find(h, PhaseTitleClose, t)
       IN <<[kind |-> "phase",
             number |-> NumberOf(PhaseDigits(SubSeq(h, t + 1, e - 1))),
             title |-> SubSeq(h, t + 1, e - 1),
             body |-> <<>>]>> \o OutBlocks(h, p + 1)
  ELSE IF h[p] \in {StandaloneHead, StandaloneHeadOpen}
  THEN LET b == Find(h, StandaloneBody, p)
           f == Find(h, StandaloneFoot, b)
       IN <<[kind |-> "card",
             number |-> 0,
             title |-> SubSeq(h, p + 1, b - 1),
             body |-> SubSeq(h, b + 1, f - 1)]>> \o OutBlocks(h, p + 1)
  ELSE OutBlocks(h, p + 1)

\* the body a YT Tutorials section is rendered to
YtBody(section) ==
  renderMarkdown(OrNoDetails(
    sanitizeSectionMarkdown(section.title, trim(join(section.content)))))

\* C9: the phase blocks stand in ascending phaseNumber order, one for every
\* Phase heading of the document; every YT Tutorials card stands behind all
\* phase blocks, one for every YT Tutorials heading, in appearance order.
C9_PhasesAscendingThenYt ==
  (stage = "built" /\ InputHeadings(md) # <<>>) =>
    LET blocks == OutBlocks(html, 1)
        phases == SelectSeq(blocks, LAMBDA b : b.kind = "phase")
        cards == SelectSeq(blocks, LAMBDA b : b.kind = "card")
        inPhases == SelectSeq(InputHeadings(md), LAMBDA m : m.type = "phase")
        inYt == SelectSeq(Segment(md).sections, LAMBDA x : x.type = "yt")
    IN /\ blocks = phases \o cards
       /\ \A a, b \in 1..Len(phases) : a < b => phases[a].number <= phases[b].number
       /\ Len(phases) = Len(inPhases)
       /\ \A n \in {inPhases[k].phaseNumber : k \in 1..Len(inPhases)} :
            Cardinality({k \in 1..Len(phases) : phases[k].number = n})
              = Cardinality({k \in 1..Len(inPhases) : inPhases[k].phaseNumber = n})
       /\ Len(cards) = Len(inYt)
       /\ \A k \in 1..Len(cards) :
            /\ cards[k].title = <<"YT", " ", "Tutorials">>
            /\ cards[k].body = YtBody(inYt[k])

\* Phase 3 and Phase 1 behind a YT Tutorials heading: built as 1, 3, YT
C9_Witness ==
  /\ stage = "built"
  /\ md = join(<<LineYt, LinePhase3, LinePhase1>>)
  /\ LET blocks == OutBlocks(html, 1)
     IN /\ Len(blocks) = 3
        /\ blocks[1].kind = "phase" /\ blocks[1].number = 1
        /\ blocks[2].kind = "phase" /\ blocks[2].number = 3
        /\ blocks[3].kind = "card"

\* C10: for a non-empty document none of whose lines parseSectionMeta
\* recognises, buildCollapsibleRoadmap returns renderMarkdown of the document.
C10_FallbackIsRenderMarkdown ==
  (stage = "built" /\ md # <<>> /\ InputHeadings(md) = <<>>) =>
    html = renderMarkdown(md)

\* a document of three lines without a heading, with a list item, has been built
C10_Witness ==
  /\ stage = "built"
  /\ InputHeadings(md) = <<>>
  /\ Len(split(md)) = 3
  /\ split(md)[1] = LineBlank
  /\ Contains(md, LineItem)
  /\ Contains(html, <<"<li>">>)
  /\ html = renderMarkdown(md)

\* the positions of h that hold a card head, and those that hold an expanded one
CardPositions(h) == {p \in 1..Len(h) : h[p] \in CardHeads}
OpenCardPositions(h) == {p \in 1..Len(h) : h[p] \in {CardHeadOpen, StandaloneHeadOpen}}

\* the least phaseNumber among the Phase headings of a document that has one
LowestPhaseNumber(doc) ==
  LET ns == {InputHeadings(doc)[k].phaseNumber :
               k \in {i \in 1..Len(InputHeadings(doc)) : InputHeadings(doc)[i].type = "phase"}}
  IN CHOOSE n \in ns : \A m \in ns : n <= m

\* C11: when at least one section heading is recognised, exactly one card of
\* the output carries "open".  It is the first card of the output: with a
\* Phase heading in the document it is the first card of the first phase
\* block, which is a block of the lowest phase number; without one it is the
\* first YT Tutorials card.  Every other card is written without "open".
C11_ExactlyOneOpenCard ==
  (stage = "built" /\ InputHeadings(md) # <<>>) =>
    LET opens == OpenCardPositions(html)
        blocks == OutBlocks(html, 1)
    IN /\ Cardinality(opens) = 1
       /\ \A o \in opens :
            /\ \A p \in CardPositions(html) : o <= p
            /\ IF \E k \in 1..Len(InputHeadings(md)) : InputHeadings(md)[k].type = "phase"
               THEN /\ html[o] = CardHeadOpen
                    /\ Find(html, PhaseBlockOpen, 1) < o
                    /\ o < Find(html, PhaseBlockClose, 1)
                    /\ blocks[1].kind = "phase"
                    /\ blocks[1].number = LowestPhaseNumber(md)
               ELSE /\ html[o] = StandaloneHeadOpen
                    /\ blocks[1].kind = "card"
                    /\ blocks[1].title = <<"YT", " ", "Tutorials">>
                    /\ Find(html, StandaloneHeadOpen, 1) = o

\* Phase 2 with an Objectives card, then Phase 1: two cards, the one of
\* Phase 1 first and expanded, the one of Phase 2 collapsed
C11_Witness ==
  /\ stage = "built"
  /\ md = join(<<LinePhase2, LineObjectives, LinePhase1>>)
  /\ Cardinality(CardPositions(html)) = 2
  /\ Cardinality(OpenCardPositions(html)) = 1
  /\ OutBlocks(html, 1)[1].number = 1
  /\ \E p \in CardPositions(html) : html[p] = CardHead

(***************************************************************************)
(* renderMarkdown and escapeHtml alone, and the builder on texts with raw  *)
(* HTML in them                                                            *)
(***************************************************************************)

LineNumbered == <<"1", ".", " ", "Learn">>
LineText == <<"Learn", " ", "Docs">>
LineWhite == <<" ">>
LineHeading == <<"#", "#", " ", "Basics">>
LineRaw == <<"<", "Docs", ">", " ", "&", " ", "Learn">>
LineBold == <<"*", "*", "Learn", "*", "*", " ", "*", "Docs", "*">>
LinePhaseRaw == <<"#", "#", " ", "Phase", " ", "1", ":", " ", "<", "Docs", ">", "&">>
LineObjectivesRaw == <<"Objectives", ":">>

RenderLines == {LineItem, LineNumbered, LineText, LineWhite, LineBlank, LineHeading,
                LineRaw, LineBold, LinePhaseRaw, LineObjectivesRaw}

\* the texts of at most MaxLines lines, as they come (not trimmed)
RenderTexts == {join(ls) : ls \in UNION {[1..n -> RenderLines] : n \in 0..MaxLines}}

InitRender ==
  /\ AtRest
  /\ md \in RenderTexts
  /\ html = <<>>
  /\ stage = "none"
  /\ output = <<>>

\* one call of renderMarkdown(md)
Render ==
  /\ stage = "none"
  /\ html' = renderMarkdown(md)
  /\ stage' = "rendered"
  /\ UNCHANGED <<pageVars, jobs, serverVars, shown, md, output>>

\* one call of escapeHtml(md)
Escape ==
  /\ stage = "none"
  /\ html' = escapeHtml(md)
  /\ stage' = "escaped"
  /\ UNCHANGED <<pageVars, jobs, serverVars, shown, md, output>>

NextRender == Render \/ Escape \/ Build

SpecRender == InitRender /\ [][NextRender]_vars

(***************************************************************************)
(* getSubsectionTitle alone, applied to lines made of markers, a title and *)
(* trailing punctuation                                                    *)
(***************************************************************************)

\* what stands in front of the title: nothing, a heading marker, a bullet, a
\* number, an opening bold marker, and some of them together
LinePrefixes ==
  {<<>>, <<"#", "#", " ">>, <<"#", "#", "#", " ">>, <<"-", " ">>, <<"*", " ">>,
   <<"1", ".", " ">>, <<"*", "*">>, <<"-", " ", "*", "*">>, <<"#", "#", " ", "*", "*">>,
   <<"#", "#", "#", " ", "2", ".", " ">>}

\* what stands behind it when it directly follows the title
AttachedSuffixes ==
  {<<>>, <<":">>, <<"-">>, <<":", "-">>, <<"*", "*">>, <<":", "*", "*">>,
   <<"*", "*", ":">>, <<":", " ">>}

\* what stands behind it after white space
DetachedSuffixes == {<<" ", ":">>, <<" ", "-">>}

LineSuffixes == AttachedSuffixes \cup DetachedSuffixes

\* the spellings that are titles, in lower case
TitleBodies ==
  {<<"duration">>, <<"objectives">>, <<"objective">>,
   <<"concrete", " ", "tasks", "/", "activities">>, <<"concrete", " ", "tasks">>,
   <<"tasks", "/", "activities">>,
   <<"suggested", " ", "project", " ", "ideas">>,
   <<"suggested", " ", "project", " ", "idea">>,
   <<"recommended", " ", "resources">>, <<"recommended", " ", "resource">>,
   <<"resources">>, <<"resource">>,
   <<"tips", " ", "for", " ", "staying", " ", "consistent">>,
   <<"how", " ", "to", " ", "measure", " ", "progress">>,
   <<"recommended", " ", "next", " ", "step">>}

\* spellings that are no titles
OtherBodies ==
  {<<"docs">>, <<"learn", " ", "docs">>, <<"resources", " ", "docs">>,
   <<"next", " ", "step">>, <<"tips">>}

\* every word capitalised; the first word capitalised
Capitalised(body) ==
  [i \in 1..Len(body) |-> IF body[i] \in LowWords THEN CapOf[body[i]] ELSE body[i]]
FirstCapitalised(body) == <<CapOf[body[1]]>> \o Tail(body)

Casings(body) == {body, Capitalised(body), FirstCapitalised(body)}

ClassifierLines ==
  {p \o c \o x : p \in LinePrefixes,
                 c \in UNION {Casings(b) : b \in TitleBodies \cup OtherBodies},
                 x \in LineSuffixes}

InitClassify ==
  /\ AtRest
  /\ md \in ClassifierLines
  /\ html = <<>>
  /\ stage = "none"
  /\ output = <<>>

\* one call of getSubsectionTitle(md)
Classify ==
  /\ stage = "none"
  /\ html' = getSubsectionTitle(md)
  /\ stage' = "classified"
  /\ UNCHANGED <<pageVars, jobs, serverVars, shown, md, output>>

NextClassify == Classify

SpecClassify == InitClassify /\ [][NextClassify]_vars

\* the lines from position k up to, but excluding, the next heading; heads
\* tells line by line whether the line is a heading
RECURSIVE RunFrom(_, _, _)
RunFrom(lines, heads, k) ==
  IF k > Len(lines) \/ heads[k] THEN <<>>
  ELSE <<lines[k]>> \o RunFrom(lines, heads, k + 1)

\* the positions of the headings, ascending
HeadPositions(heads) ==
  SelectSeq([k \in 1..Len(heads) |-> k], LAMBDA k : heads[k])

RECURSIVE SumOfLengths(_)
SumOfLengths(runs) ==
  IF runs = <<>> THEN 0 ELSE Len(Head(runs)) + SumOfLengths(Tail(runs))

\* first and runs divide the lines that are no headings: first is the run in
\* front of the first heading, runs[j] the run behind the j-th heading, and
\* together with the headings they are as many as the lines
Divides(lines, heads, first, runs) ==
  /\ first = RunFrom(lines, heads, 1)
  /\ Len(runs) = Len(HeadPositions(heads))
  /\ \A j \in 1..Len(runs) : runs[j] = RunFrom(lines, heads, HeadPositions(heads)[j] + 1)
  /\ Len(first) + Len(runs) + SumOfLengths(runs) = Len(lines)

\* C15: the scan divides the document: a line that parseSectionMeta
\* recognises opens a section (with the type, number and title parsed from
\* it); every other line stands exactly once, in its order, in the intro run
\* when no section has been opened, otherwise in the content of the section
\* opened last.  Inside a phase, getSubsectionTitle divides the content into
\* the preface and the subsections the same way.
C15_SegmentationPartitions ==
  (stage = "built" /\ md # <<>>) =>
    LET lines == split(md)
        heads == [k \in 1..Len(lines) |-> parseSectionMeta(lines[k]) # NoMeta]
        sections == output.sections
    IN /\ Divides(lines, heads, output.introLines,
                  [j \in 1..Len(sections) |-> sections[j].content])
       /\ \A j \in 1..Len(sections) :
            /\ [type |-> sections[j].type, phaseNumber |-> sections[j].phaseNumber,
                title |-> sections[j].title]
                 = parseSectionMeta(lines[HeadPositions(heads)[j]])
            /\ LET content == sections[j].content
                   parts == splitPhaseContentIntoSubsections(content)
                   titled == [k \in 1..Len(content) |->
                                getSubsectionTitle(content[k]) # NoTitle]
               IN /\ Divides(content, titled, parts.preface,
                             [i \in 1..Len(parts.subsections) |->
                                parts.subsections[i].lines])
                  /\ \A i \in 1..Len(parts.subsections) :
                       parts.subsections[i].title
                         = getSubsectionTitle(content[HeadPositions(titled)[i]])

\* a list item, Phase 1 and a line with a URL: one intro line, one section
\* with one line of content
C15_Witness ==
  /\ stage = "built"
  /\ md = join(<<LineItem, LinePhase1, LineUrl>>)
  /\ output.introLines = <<LineItem>>
  /\ Len(output.sections) = 1
  /\ output.sections[1].content = <<LineUrl>>

\* The templates of the builder nest as they should from position p on.  ctx
\* is "top" or "block" (inside a phase block); mode is "out" (between the
\* parts), "ptitle", "preface", "ctitle" or "cbody" (inside the title of a
\* phase, a preface, the title or the body of a card); hasCard tells whether
\* the phase block has a card already.
RECURSIVE Nests(_, _, _, _, _)
Nests(h, p, ctx, mode, hasCard) ==
  IF p > Len(h) THEN ctx = "top" /\ mode = "out"
  ELSE CASE h[p] = PhaseBlockOpen ->
              /\ ctx = "top" /\ mode = "out" /\ At(h, p + 1) = PhaseTitleOpen
              /\ Nests(h, p + 2, "block", "ptitle", FALSE)
         [] h[p] = PhaseTitleOpen -> FALSE
         [] h[p] = PhaseTitleClose ->
              mode = "ptitle" /\ Nests(h, p + 1, ctx, "out", hasCard)
         [] h[p] = PrefaceOpen ->
              /\ ctx = "block" /\ mode = "out" /\ ~hasCard
              /\ Nests(h, p + 1, ctx, "preface", hasCard)
         [] h[p] = PrefaceClose ->
              mode = "preface" /\ Nests(h, p + 1, ctx, "out", hasCard)
         [] h[p] \in {CardHead, CardHeadOpen} ->
              ctx = "block" /\ mode = "out" /\ Nests(h, p + 1, ctx, "ctitle", hasCard)
         [] h[p] \in {StandaloneHead, StandaloneHeadOpen} ->
              ctx = "top" /\ mode = "out" /\ Nests(h, p + 1, ctx, "ctitle", hasCard)
         [] h[p] = CardBody ->
              ctx = "block" /\ mode = "ctitle" /\ Nests(h, p + 1, ctx, "cbody", hasCard)
         [] h[p] = StandaloneBody ->
              ctx = "top" /\ mode = "ctitle" /\ Nests(h, p + 1, ctx, "cbody", hasCard)
         [] h[p] = CardFoot ->
              ctx = "block" /\ mode = "cbody" /\ Nests(h, p + 1, ctx, "out", TRUE)
         [] h[p] = StandaloneFoot ->
              ctx = "top" /\ mode = "cbody" /\ Nests(h, p + 1, ctx, "out", hasCard)
         [] h[p] = PhaseBlockClose ->
              /\ ctx = "block" /\ mode = "out" /\ hasCard
              /\ Nests(h, p + 1, "top", "out", FALSE)
         [] OTHER ->
              /\ ~(ctx = "block" /\ mode = "out")
              /\ Nests(h, p + 1, ctx, mode, hasCard)

\* the card bodies of h, in the order they stand in
RECURSIVE BodiesFrom(_, _)
BodiesFrom(h, p) ==
  IF p > Len(h) THEN <<>>
  ELSE IF h[p] \in CardBodies
  THEN LET f == IF h[p] = CardBody THEN Find(h, CardFoot, p) ELSE Find(h, StandaloneFoot, p)
       IN <<SubSeq(h, p + 1, f - 1)>> \o BodiesFrom(h, f)
  ELSE BodiesFrom(h, p + 1)

\* C16: for every document, and so for every line-prefix of one (the
\* documents are all the sequences of at most MaxLines lines), the builder
\* returns a text in which the templates nest completely: every phase block
\* has its title and at least one card and is closed, every card has title,
\* body and foot, no body is empty; one section is written for every heading
\* recognised, also for one without content; for the empty text it returns
\* the empty text.
C16_BuilderTotalOverPrefixes ==
  stage = "built" =>
    /\ md = <<>> => html = <<>>
    /\ Nests(html, 1, "top", "out", FALSE)
    /\ \A k \in 1..Len(BodiesFrom(html, 1)) : BodiesFrom(html, 1)[k] # <<>>
    /\ Len(OutBlocks(html, 1)) = Len(InputHeadings(md))
    /\ \A n \in 0..Len(split(md)) : join(Take(split(md), n)) \in Docs

\* a document that ends with a Phase heading that has no content yet: the
\* phase block holds one card, with the placeholder
C16_Witness ==
  /\ stage = "built"
  /\ md = join(<<LineItem, LinePhase1>>)
  /\ Len(OutBlocks(html, 1)) = 1
  /\ BodiesFrom(html, 1) = <<renderMarkdown(NoDetails)>>

\* what the cards of the output are made from, in the order they are written:
\* the cards of every phase block in ascending phaseNumber, then every other
\* section, then the YT Tutorials sections
CardSources(sections) ==
  concat([k \in 1..Len(PhaseSections(sections)) |->
            FallbackSubsections(PhaseSections(sections)[k],
              splitPhaseContentIntoSubsections(PhaseSections(sections)[k].content).subsections)])
  \o [k \in 1..Len(OtherSections(sections)) |->
        [title |-> OtherSections(sections)[k].title,
         lines |-> OtherSections(sections)[k].content]]
  \o [k \in 1..Len(FilterType(sections, "yt")) |->
        [title |-> FilterType(sections, "yt")[k].title,
         lines |-> FilterType(sections, "yt")[k].content]]

\* the content of a card after trimming and, unless the card is titled
\* Recommended Resources, after the links are stripped
CardContent(src) == sanitizeSectionMarkdown(src.title, trim(join(src.lines)))

\* the words of the placeholder
PlaceholderText == <<"No", " ", "details", " ", "available", ".">>

\* C21: no card body is empty.  A card whose content is empty after trimming
\* and (unless it is a Recommended Resources card) link stripping holds the
\* placeholder "No details available."; a card whose content is not empty
\* after that step holds the rendered content and not the placeholder.
C21_EmptyCardGetsPlaceholder ==
  (stage = "built" /\ InputHeadings(md) # <<>>) =>
    LET bodies == BodiesFrom(html, 1)
        srcs == CardSources(output.sections)
    IN /\ Len(bodies) = Len(srcs)
       /\ \A k \in 1..Len(bodies) :
            /\ bodies[k] # <<>>
            /\ IF CardContent(srcs[k]) = <<>>
               THEN Contains(bodies[k], PlaceholderText)
               ELSE /\ bodies[k] = renderMarkdown(CardContent(srcs[k]))
                    /\ ~Contains(bodies[k], PlaceholderText)

\* a phase whose Objectives card holds nothing but a URL: the stripping
\* removes it, and the card shows the placeholder
C21_Witness ==
  /\ stage = "built"
  /\ md = join(<<LinePhase1, LineObjectives, LineBareUrl>>)
  /\ BodiesFrom(html, 1) = <<renderMarkdown(NoDetails)>>
  /\ CardSources(output.sections)[1].lines = <<LineBareUrl>>
  /\ Contains(BodiesFrom(html, 1)[1], PlaceholderText)

\* the cards of a phase block of h that start between positions p and e
RECURSIVE CardsFrom(_, _, _)
CardsFrom(h, p, e) ==
  IF p > e \/ p > Len(h) THEN <<>>
  ELSE IF h[p] \in {CardHead, CardHeadOpen}
  THEN <<[title |-> SubSeq(h, p + 1, Find(h, CardBody, p) - 1),
          body |-> SubSeq(h, Find(h, CardBody, p) + 1, Find(h, CardFoot, p) - 1)]>>
       \o CardsFrom(h, Find(h, CardFoot, p), e)
  ELSE CardsFrom(h, p + 1, e)

\* the preface blocks of h that start between positions p and e
RECURSIVE PrefacesFrom(_, _, _)
PrefacesFrom(h, p, e) ==
  IF p > e \/ p > Len(h) THEN <<>>
  ELSE IF h[p] = PrefaceOpen
  THEN <<SubSeq(h, p + 1, Find(h, PrefaceClose, p) - 1)>>
       \o PrefacesFrom(h, Find(h, PrefaceClose, p), e)
  ELSE PrefacesFrom(h, p + 1, e)

\* the phase blocks of h from position p on, each with its preface blocks and
\* its cards
RECURSIVE PhaseBlocksFrom(_, _)
PhaseBlocksFrom(h, p) ==
  IF p > Len(h) THEN <<>>
  ELSE IF h[p] = PhaseBlockOpen
  THEN <<[prefaces |-> PrefacesFrom(h, p, Find(h, PhaseBlockClose, p)),
          cards |-> CardsFrom(h, p, Find(h, PhaseBlockClose, p))]>>
       \o PhaseBlocksFrom(h, Find(h, PhaseBlockClose, p))
  ELSE PhaseBlocksFrom(h, p + 1)

\* what a run of lines is rendered to in a preface block
RenderedPreface(lines) ==
  renderMarkdown(CardContent([title |-> <<"Phase", " ", "Intro">>, lines |-> lines]))

\* what a run of lines is rendered to in the body of a card with this title
RenderedCard(title, lines) ==
  renderMarkdown(OrNoDetails(CardContent([title |-> title, lines |-> lines])))

\* a phase without a subsection heading and with more than blank content:
\* one preface block and one card titled Details, both made from all lines
ShownTwice(content, block) ==
  /\ block.prefaces = <<RenderedPreface(content)>>
  /\ Len(block.cards) = 1
  /\ block.cards[1].title = <<"Details">>
  /\ block.cards[1].body = RenderedCard(<<"Details">>, content)

\* a phase with a subsection heading: the lines in front of the first heading
\* make the preface block (none when they are blank), the j-th heading makes
\* the title of the j-th card and the lines behind it, up to the next
\* heading, make its body; titled[i] tells whether line i is a heading
ShownOnce(content, titled, block) ==
  /\ block.prefaces =
       IF trim(join(RunFrom(content, titled, 1))) = <<>> THEN <<>>
       ELSE <<RenderedPreface(RunFrom(content, titled, 1))>>
  /\ Len(block.cards) = Len(HeadPositions(titled))
  /\ \A j \in 1..Len(block.cards) :
       /\ block.cards[j].title
            = escapeHtml(getSubsectionTitle(content[HeadPositions(titled)[j]]))
       /\ block.cards[j].body
            = RenderedCard(getSubsectionTitle(content[HeadPositions(titled)[j]]),
                           RunFrom(content, titled, HeadPositions(titled)[j] + 1))

\* the lines of a content that getSubsectionTitle recognises
Titled(content) ==
  [i \in 1..Len(content) |-> getSubsectionTitle(content[i]) # NoTitle]

\* C22: a phase that has content other than blank lines and no line
\* recognised as a subsection heading is written with a preface block and one
\* card titled Details, both made from the whole content of the phase, the
\* same lines.  In a phase with at least one recognised subsection heading
\* every content line is shown once: in the preface block when it stands in
\* front of the first heading, as the title of a card when it is a heading,
\* otherwise in the body of the card of the last heading in front of it.
C22_DetailsRepeatsPrefaceElseOnce ==
  (stage = "built" /\ InputHeadings(md) # <<>>) =>
    /\ Len(PhaseBlocksFrom(html, 1)) = Len(PhaseSections(output.sections))
    /\ \A k \in 1..Len(PhaseSections(output.sections)) :
         IF HeadPositions(Titled(PhaseSections(output.sections)[k].content)) = <<>>
         THEN trim(join(PhaseSections(output.sections)[k].content)) # <<>> =>
                ShownTwice(PhaseSections(output.sections)[k].content,
                           PhaseBlocksFrom(html, 1)[k])
         ELSE ShownOnce(PhaseSections(output.sections)[k].content,
                        Titled(PhaseSections(output.sections)[k].content),
                        PhaseBlocksFrom(html, 1)[k])

\* Phase 1 with a list item and a line of text and no subsection heading:
\* the two lines are shown in the preface block and again in the one card,
\* titled Details
C22_Witness ==
  /\ stage = "built"
  /\ md = join(<<LinePhase1, LineItem, LineUrl>>)
  /\ Len(PhaseBlocksFrom(html, 1)) = 1
  /\ PhaseBlocksFrom(html, 1)[1].prefaces = <<renderMarkdown(join(<<LineItem, <<"Learn">>>>))>>
  /\ Len(PhaseBlocksFrom(html, 1)[1].cards) = 1
  /\ PhaseBlocksFrom(html, 1)[1].cards[1].title = <<"Details">>
  /\ PhaseBlocksFrom(html, 1)[1].cards[1].body = PhaseBlocksFrom(html, 1)[1].prefaces[1]
  /\ Cardinality({p \in 1..Len(html) : html[p] = "<li>"}) = 2

(***************************************************************************)
(* Properties of stripLinksExceptRecommendedResources, under SpecSanitize  *)
(***************************************************************************)

\* what the sanitizer tests a line by
NormalizedLine(line) == toLowerCase(normalizeHeadingCandidate(line))

\* the line sets the flag; the line clears it
SetsFlag(line) == IsRecommendedResourcesLine(NormalizedLine(line))
ClearsFlag(line) == ~SetsFlag(line) /\ IsOtherHeadingLine(NormalizedLine(line))

\* line k lies in a Recommended Resources region: from a line that sets the
\* flag up to, but excluding, the next line that clears it
InRegion(lines, k) ==
  \E s \in 1..k : SetsFlag(lines[s]) /\ \A t \in (s + 1)..k : ~ClearsFlag(lines[t])

\* the text holds "http://" or "https://"
HasScheme(text) == \E p \in 1..Len(text) : text[p] \in Schemes

\* the text holds a URL: a scheme, in any letter case, and at least one
\* character behind it that is neither white space nor ")"
HasUrl(text) ==
  \E p \in 1..(Len(text) - 1) :
    IsScheme(text[p]) /\ ~IsWhite(text[p + 1]) /\ text[p + 1] # ")"

\* C12 as stated: for every line outside a Recommended Resources region that
\* contains a URL, the corresponding output holds neither "http://" nor
\* "https://".
C12_NoSchemeOutsideRegion ==
  stage = "sanitized" =>
    \A k \in 1..Len(output) :
      (~InRegion(split(md), k) /\ HasUrl(split(md)[k])) => ~HasScheme(output[k])

\* C12, amended: for every line outside a Recommended Resources region, the
\* corresponding output holds no URL, that is, no scheme followed by a
\* character other than white space and ")"; and a text without a region
\* is returned without a URL.
C12_NoUrlOutsideRegion ==
  stage = "sanitized" =>
    /\ Len(output) = IF md = <<>> THEN 0 ELSE Len(split(md))
    /\ \A k \in 1..Len(output) : ~InRegion(split(md), k) => ~HasUrl(output[k])
    /\ (\A k \in 1..Len(output) : ~InRegion(split(md), k)) => ~HasUrl(html)

\* a line with a scheme that stands alone and a URL, outside any region, has
\* lost the URL and kept the scheme; a line of a region behind it kept its link
C12_Witness ==
  /\ stage = "sanitized"
  /\ md = join(<<LineSchemeAndUrl, LineResources, LineLink>>)
  /\ output = <<<<"https://", " ", "Docs">>, LineResources, LineLink>>

\* the lines of a region that hold more than white space, in their order
RECURSIVE RegionLinesFrom(_, _)
RegionLinesFrom(lines, k) ==
  IF k > Len(lines) THEN <<>>
  ELSE IF InRegion(lines, k) /\ trim(lines[k]) # <<>>
       THEN <<lines[k]>> \o RegionLinesFrom(lines, k + 1)
       ELSE RegionLinesFrom(lines, k + 1)

\* the lines r stand in the lines o from position m on, in their order and
\* byte-identical but for the white space that trim() takes from the two
\* ends of the whole text: in front of the first line of o and behind the
\* last one
RECURSIVE StandInTrimmed(_, _, _)
StandInTrimmed(r, o, m) ==
  IF r = <<>> THEN TRUE
  ELSE IF m > Len(o) THEN FALSE
  ELSE IF \/ o[m] = Head(r)
          \/ m = 1 /\ o[m] = trimStart(Head(r))
          \/ m = Len(o) /\ o[m] = trimEnd(Head(r))
          \/ m = 1 /\ m = Len(o) /\ o[m] = trim(Head(r))
       THEN StandInTrimmed(Tail(r), o, m + 1)
  ELSE StandInTrimmed(r, o, m + 1)

CanonicalTitles ==
  {<<"Duration">>, <<"Objectives">>, <<"Concrete", " ", "Tasks", "/", "Activities">>,
   <<"Suggested", " ", "Project", " ", "Ideas">>, <<"Recommended", " ", "Resources">>,
   <<"Tips", " ", "For", " ", "Staying", " ", "Consistent">>,
   <<"How", " ", "To", " ", "Measure", " ", "Progress">>,
   <<"Recommended", " ", "Next", " ", "Step">>}

\* the canonical title a spelling stands for: the plural of a singular, and
\* the full title of a short one
CanonicalOf(body) ==
  CASE body \in {<<"objective">>, <<"objectives">>} -> <<"Objectives">>
    [] body \in {<<"concrete", " ", "tasks", "/", "activities">>,
                 <<"concrete", " ", "tasks">>, <<"tasks", "/", "activities">>} ->
         <<"Concrete", " ", "Tasks", "/", "Activities">>
    [] body \in {<<"suggested", " ", "project", " ", "ideas">>,
                 <<"suggested", " ", "project", " ", "idea">>} ->
         <<"Suggested", " ", "Project", " ", "Ideas">>
    [] body \in {<<"recommended", " ", "resources">>, <<"recommended", " ", "resource">>,
                 <<"resources">>, <<"resource">>} ->
         <<"Recommended", " ", "Resources">>
    [] OTHER -> Capitalised(body)

\* the line is made of a prefix, a spelling of this title in some letter case
\* and one of these suffixes
MadeOf(line, body, suffixes) ==
  \E p \in LinePrefixes, c \in Casings(body), x \in suffixes : line = p \o c \o x

\* C14 as stated: every spelling of a canonical title gives that title,
\* whatever heading, bullet, number or bold markers stand in front, whatever
\* the letter case and whatever colons or dashes trail; and the result is
\* always one of the 8 canonical titles or null.
C14_SynonymsGiveCanonicalTitle ==
  stage = "classified" =>
    /\ html \in CanonicalTitles \cup {NoTitle}
    /\ \A b \in TitleBodies : MadeOf(md, b, LineSuffixes) => html = CanonicalOf(b)

\* C14, amended: the same for colons and dashes that directly follow the
\* title (and bold markers among them); a colon or dash that trails behind
\* white space leaves the line without a title.
C14_SynonymsGiveCanonicalTitleAttached ==
  stage = "classified" =>
    /\ html \in CanonicalTitles \cup {NoTitle}
    /\ \A b \in TitleBodies :
         /\ MadeOf(md, b, AttachedSuffixes) => html = CanonicalOf(b)
         /\ MadeOf(md, b, DetachedSuffixes) => html = NoTitle
    /\ \A b \in OtherBodies : MadeOf(md, b, LineSuffixes) => html = NoTitle

\* "## **Resource:**" was given the title Recommended Resources
C14_Witness ==
  /\ stage = "classified"
  /\ md = <<"#", "#", " ", "*", "*", "Resource", ":", "*", "*">>
  /\ html = <<"Recommended", " ", "Resources">>

(***************************************************************************)
(* Properties of renderMarkdown and escapeHtml, under SpecRender           *)
(***************************************************************************)

\* how often the symbol c stands in h
Count(h, c) == Cardinality({p \in 1..Len(h) : h[p] = c})

\* the line is a list item: a bullet or a number in front, after white space
IsListLine(line) ==
  LET q == SkipWhite(line, 1)
      d == SkipDigits(line, q)
  IN \/ At(line, q) \in {"-", "*"} /\ At(line, q + 1) = " "
     \/ d > q /\ At(line, d) = "." /\ IsWhite(At(line, d + 1))

\* the number of maximal runs of consecutive list-item lines
ListRuns(lines) ==
  Cardinality({k \in 1..Len(lines) :
                 IsListLine(lines[k]) /\ (k = 1 \/ ~IsListLine(lines[k - 1]))})

\* C18: every maximal run of k consecutive list-item lines gives exactly one
\* <ul> with k <li> in it: as many <ul> as runs, as many <li> as list-item
\* lines.
C18_OneListPerRun ==
  stage = "rendered" =>
    /\ Count(html, "<li>") = Cardinality({k \in 1..Len(split(md)) : IsListLine(split(md)[k])})
    /\ Count(html, "<ul>") = ListRuns(split(md))

\* the line holds white space and nothing else
IsWhiteLine(line) == line # <<>> /\ trim(line) = <<>>

\* the paragraphs of h: what stands between "<p>" and the next "</p>"
RECURSIVE ParagraphsFrom(_, _)
ParagraphsFrom(h, p) ==
  IF p > Len(h) THEN <<>>
  ELSE IF h[p] = "<p>"
  THEN <<SubSeq(h, p + 1, Find(h, "</p>", p) - 1)>> \o ParagraphsFrom(h, Find(h, "</p>", p))
  ELSE ParagraphsFrom(h, p + 1)

\* C19: no paragraph is written for a line that holds only white space,
\* wherever the line stands: every paragraph of the output holds more than
\* white space.
C19_NoParagraphForWhiteLine ==
  stage = "rendered" =>
    \A k \in 1..Len(ParagraphsFrom(html, 1)) : trim(ParagraphsFrom(html, 1)[k]) # <<>>

\* the tags that renderMarkdown and the builder write
WrittenTags ==
  HeadingTags \cup {"</h1>", "</h2>", "</h3>", "</h4>", "</h5>", "</h6>"}
    \cup {"<strong>", "</strong>", "<em>", "</em>", "<ul>", "</ul>", "<li>", "</li>",
          "<p>", "</p>"}
    \cup {PhaseBlockOpen, PhaseBlockClose, PhaseTitleOpen, PhaseTitleClose,
          PrefaceOpen, PrefaceClose, CardHead, CardHeadOpen, CardBody, CardFoot,
          StandaloneHead, StandaloneHeadOpen, StandaloneBody, StandaloneFoot}

\* C20: in what renderMarkdown and escapeHtml return, and in what the
\* builder returns with its titles, no "<", ">" or "&" of the input is left
\* as it was: each stands as "&lt;", "&gt;", "&amp;", as many as the input
\* had (the builder, which may write a line twice or strip it, has an entity
\* only where the input had the character).
\* A "<" or ">" of the output thus stands in a tag the program wrote, each of
\* which is one symbol; escapeHtml writes no tag at all.
C20_RawHtmlNeutralized ==
  stage \in {"rendered", "escaped", "built"} =>
    /\ \A p \in 1..Len(html) : html[p] \notin {"<", ">", "&"}
    /\ stage \in {"rendered", "escaped"} =>
         /\ Count(html, "&lt;") = Count(md, "<")
         /\ Count(html, "&gt;") = Count(md, ">")
         /\ Count(html, "&amp;") = Count(md, "&")
    /\ stage = "built" =>
         /\ Count(html, "&lt;") > 0 => Count(md, "<") > 0
         /\ Count(html, "&gt;") > 0 => Count(md, ">") > 0
         /\ Count(html, "&amp;") > 0 => Count(md, "&") > 0
    /\ stage = "escaped" => \A p \in 1..Len(html) : html[p] \notin WrittenTags

\* a Phase heading with raw HTML in its title and a line with raw HTML
\* behind it, built: the title and the card body hold the entities
C20_Witness ==
  /\ stage = "built"
  /\ md = join(<<LinePhaseRaw, LineRaw>>)
  /\ Contains(html, <<PhaseTitleOpen, "Phase", " ", "1", ":", " ", "&lt;", "Docs", "&gt;", "&amp;",
                      PhaseTitleClose>>)
  /\ Contains(html, <<"<p>", "&lt;", "Docs", "&gt;", " ", "&amp;", " ", "Learn", "</p>">>)
====
